---- MODULE Spec2Model ----
(***************************************************************************)
(* Asynchronous visualization job engine of modes-sensing.                 *)
(*                                                                         *)
(* Client side: the useGraphJobs hook (job table, polling timer, polled id *)
(* list, pending automatic retries, requests in flight) and the job view   *)
(* of GraphDisplay.                                                        *)
(* Server side: the fingerprint registry, its get-or-create gate and the   *)
(* bounded worker pool.  The server code (job_manager.py, graph.py) is not *)
(* part of the TypeScript sources; it is modelled from the design          *)
(* document, sections 3, 4.2, 4.3 and 4.5.                                 *)
(***************************************************************************)
EXTENDS Naturals, Integers, Sequences, FiniteSets, Bags, TLC

\* ---------------------------------------------------------------- bounds
NumGraphs == 1
MaxTime == 2
MaxJobs == 2
MaxPolls == 2
MaxCreates == 2
MaxManual == 1
MaxAuto == 2
MaxPending == 2
MaxFailCount == 6
NumCallers == 2
NumSlots == 1
MaxSpanDays == 200
MaxParams == 1
MinuteLen == 2
MinutesPerDay == 1
ClockSlack == 2
NumImages == 3
TenMinutes == 2
ImageLoadTimeout == 1
MaxWall == 5
NumRandom == 2
FallBackMinute == 4
DstMinutes == 1

\* ------------------------------------------------------ program constants
POLLING_FAILURE_THRESHOLD == 5
MAX_RETRY_COUNT == 2

Graphs == 1..NumGraphs
JobIds == 1..MaxJobs
Callers == 1..NumCallers

NoError == "null"
ServerError == "job execution error"
TimeoutError == "job timeout"
GatewayError == "server temporarily unavailable"
NetworkError == "network error"
ConnectionError == "connection error"
PollErrors == {GatewayError, NetworkError}

Outstanding == {"pending", "processing"}
Terminal == {"completed", "failed", "timeout"}

VARIABLES
    jobs,               \* useState jobs: graph -> GraphJob
    isLoading,          \* useState isLoading
    pollingRef,         \* TRUE while the interval timer is set
    jobIdsRef,          \* polled job ids
    mountedRef,
    pendingRetriesRef,  \* graphs waiting for the automatic retry effect
    hookPc,             \* "init" before the mount effect, then "mounted",
                        \* "unmounted" after the component is removed
    params,             \* index of the current dateRange / limitAltitude
    statusCalls,        \* bag of batchStatus calls in flight
    createCalls,        \* bag of create calls in flight
    manualCount,        \* manual reloads so far
    autoCreates,        \* per graph: automatic create() calls issued
    baseJobs,           \* per graph: never-retried jobs installed
    srvJobs,            \* registry: job id -> Job
    srvQueue,           \* FIFO queue of Pending job ids
    srvNextId,
    srvLock,            \* caller inside the registry critical section, or 0
    callers,            \* concurrent getOrCreate callers
    renders,            \* per job id: executions of the render pipeline
    workers,            \* job ids whose execution unit is still running
    spans,              \* the two query spans handed to selectTier, in days
    tiers,              \* the tiers selected for them, or <<>> before selection
    dateRange,          \* App: the date range shown, <<start, end>>
    dataRange,          \* App: the available data range <<earliest, latest>>, or <<>>
    isInitialDateRangeSet,
    dateLog,            \* the last date handler that ran, its inputs and outcome
    wallClock,          \* Date.now()
    propDateRange,      \* GraphDisplay (image loading): the dateRange prop, or <<>>
    imageUrls,          \* useState imageUrls: image -> URL, <<>> for ''
    loading,            \* useState loading
    errors,             \* useState errors
    imageRetryCount,    \* useState retryCount
    loadingTimers,      \* the pending timeout timer of each image
    imgState,           \* the img element: empty, pending, loaded or broken
    isUpdatingStateRef,
    builtProps,         \* GraphDisplay (settings key): <<start, end, limitAltitude>>
    lastSettingsRef,
    builtUrl,           \* its imageUrls, for one endpoint
    builtLoading,
    builtError,
    selectedPeriod,     \* App: useState selectedPeriod
    limitAltitude,      \* App: useState limitAltitude
    locationSearch      \* window.location.search: parameter name -> value

clientVars == <<jobs, isLoading, pollingRef, jobIdsRef, mountedRef,
                pendingRetriesRef, hookPc, params, manualCount, autoCreates,
                baseJobs>>
netVars == <<statusCalls, createCalls>>
regVars == <<srvJobs, srvQueue, srvNextId>>
gateVars == <<srvLock, callers>>
tierVars == <<spans, tiers>>
dateVars == <<dateRange, dataRange, isInitialDateRangeSet, dateLog>>
imgVars == <<wallClock, propDateRange, imageUrls, loading, errors, imageRetryCount,
             loadingTimers, imgState, isUpdatingStateRef>>
builtVars == <<builtProps, lastSettingsRef, builtUrl, builtLoading, builtError>>
urlVars == <<selectedPeriod, limitAltitude, locationSearch>>
uiVars == <<dateVars, imgVars, builtVars, urlVars>>
vars == <<clientVars, netVars, regVars, gateVars, renders, workers, tierVars, uiVars>>

\* ---------------------------------------------------------------- helpers
Min(S) == CHOOSE x \in S : \A y \in S : x <= y
Max(S) == CHOOSE x \in S : \A y \in S : y <= x

RECURSIVE SetToSeq(_)
SetToSeq(S) == IF S = {} THEN <<>> ELSE <<Min(S)>> \o SetToSeq(S \ {Min(S)})

Range(s) == {s[i] : i \in 1..Len(s)}
FilterOut(s, S) == SelectSeq(s, LAMBDA x : x \notin S)
One(m) == SetToBag({m})

\* ------------------------------------------------- server: job registry
\* A creation request names a graph and a time range.  Times are points of a
\* small time line; graph 0 stands for a name the server does not know.
UnknownGraph == 0
Times == 1..MaxTime
Requests == [graph : Graphs \cup {UnknownGraph}, start : Times, end : Times]

\* Variant of the validation that lets every request through.
ValidRequestAny(req) == TRUE

\* Validation ahead of the gate: a known graph name and start <= end.
ValidRequest(req) == req.graph \in Graphs /\ req.start <= req.end

\* A fingerprint is the canonical key of (graphName, start, end,
\* limitAltitude): equal requests get equal keys, distinct requests distinct
\* keys.  limitAltitude is held fixed.
Fingerprint(req) ==
    (req.graph - 1) * MaxTime * MaxTime + (req.start - 1) * MaxTime + req.end

\* The client's request for graph g under its p-th parameters: every change
\* of the date range moves the start of the range.
ClientRequest(g, p) ==
    [graph |-> g, start |-> Min({1 + p, MaxTime}), end |-> MaxTime]

Fingerprints == {Fingerprint(req) : req \in {r \in Requests : ValidRequest(r)}}

NewJob(fp) ==
    [fp |-> fp, status |-> "pending", progress |-> 0, expired |-> FALSE]

LiveJobs(reg, fp) ==
    {id \in DOMAIN reg : reg[id].fp = fp /\ reg[id].status \in Outstanding}

\* Variant of the cache lookup that ignores expiry.
CachedJobsAnyAge(reg, fp) ==
    {id \in DOMAIN reg : reg[id].fp = fp /\ reg[id].status = "completed"}

CachedJobs(reg, fp) ==
    {id \in DOMAIN reg : /\ reg[id].fp = fp
                         /\ reg[id].status = "completed"
                         /\ ~reg[id].expired}

\* Variant of the lookup that joins no in-flight build.
LookupJobCacheOnly(reg, fp) ==
    IF CachedJobs(reg, fp) # {} THEN Max(CachedJobs(reg, fp)) ELSE 0

\* Variant of the lookup that returns the newest job of the fingerprint,
\* whatever its status.
LookupJobLatest(reg, fp) ==
    IF {id \in DOMAIN reg : reg[id].fp = fp} # {}
    THEN Max({id \in DOMAIN reg : reg[id].fp = fp})
    ELSE 0

\* Variant of the lookup that reuses no completed job.
LookupJobLiveOnly(reg, fp) ==
    IF LiveJobs(reg, fp) # {} THEN Min(LiveJobs(reg, fp)) ELSE 0

\* Steps 1 and 2 of getOrCreate: the id to return, or 0 when new work is needed.
LookupJob(reg, fp) ==
    IF LiveJobs(reg, fp) # {} THEN Min(LiveJobs(reg, fp))
    ELSE IF CachedJobs(reg, fp) # {} THEN Max(CachedJobs(reg, fp))
    ELSE 0

\* Step 3 of getOrCreate: register a Pending job under the fingerprint.
RegisterJob(reg, id, fp) ==
    [i \in DOMAIN reg \cup {id} |-> IF i = id THEN NewJob(fp) ELSE reg[i]]

\* The whole critical section, on a state st = [jobs, queue, next].
GetOrCreate(st, fp) ==
    LET found == LookupJob(st.jobs, fp) IN
    IF found # 0
    THEN [st |-> st, id |-> found]
    ELSE [st |-> [jobs |-> RegisterJob(st.jobs, st.next, fp),
                  queue |-> Append(st.queue, st.next),
                  next |-> st.next + 1],
          id |-> st.next]

\* create(graphNames, ...): one getOrCreate per requested graph, in order.
RECURSIVE CreateAll(_, _, _, _)
CreateAll(st, gs, p, out) ==
    IF gs = <<>> THEN [st |-> st, out |-> out]
    ELSE LET r == GetOrCreate(st, Fingerprint(ClientRequest(Head(gs), p))) IN
         CreateAll(r.st, Tail(gs), p, Append(out, [graph |-> Head(gs), id |-> r.id]))

RegState == [jobs |-> srvJobs, queue |-> srvQueue, next |-> srvNextId]

\* batchStatus(jobIds): a snapshot of the known ids among those requested.
ErrorOf(status) ==
    IF status = "failed" THEN ServerError
    ELSE IF status = "timeout" THEN TimeoutError
    ELSE NoError

BatchStatus(ids) ==
    [id \in Range(ids) \cap DOMAIN srvJobs |->
        [status |-> srvJobs[id].status,
         progress |-> srvJobs[id].progress,
         error |-> ErrorOf(srvJobs[id].status)]]

\* fetchResult(jobId): TRUE when the artifact is served, FALSE for NotFound.
FetchResult(id) ==
    /\ id \in DOMAIN srvJobs
    /\ srvJobs[id].status = "completed"
    /\ ~srvJobs[id].expired

\* ------------------------------------- server: aggregation tier selector
\* Breakpoints of the tier policy, in days of query span.
RawMaxDays == 14
MidMaxDays == 90

Tiers == {"raw", "mid", "coarse"}
Spans == 0..MaxSpanDays

\* The place of a tier in the order of coarseness.
Coarseness(tier) ==
    IF tier = "raw" THEN 0 ELSE IF tier = "mid" THEN 1 ELSE 2

\* Variant of the policy with the two aggregated tiers exchanged.
SelectTierSwapped(d) ==
    IF d <= RawMaxDays THEN "raw"
    ELSE IF d <= MidMaxDays THEN "coarse"
    ELSE "mid"

\* selectTier(durationOfSpan): raw records up to 14 days, fixed buckets up to
\* 90 days, coarser buckets beyond.
SelectTier(d) ==
    IF d <= RawMaxDays THEN "raw"
    ELSE IF d <= MidMaxDays THEN "mid"
    ELSE "coarse"

\* The selector applied to two query spans.
SelectTiers(d1, d2) ==
    /\ tiers = <<>>
    /\ spans' = <<d1, d2>>
    /\ tiers' = <<SelectTier(d1), SelectTier(d2)>>
    /\ UNCHANGED <<clientVars, netVars, regVars, gateVars, renders, workers, uiVars>>

\* --------------------------------------------------- server: worker pool
Processing == {id \in DOMAIN srvJobs : srvJobs[id].status = "processing"}

\* Variant of the slot test that admits every queued job at once.
SlotAlwaysFree == TRUE

\* A slot is free while fewer jobs are Processing than there are slots.
SlotFree == Cardinality(Processing) < NumSlots

SrvDequeue ==
    /\ srvQueue # <<>>
    /\ SlotFree
    /\ srvJobs' = [srvJobs EXCEPT ![Head(srvQueue)].status = "processing"]
    /\ srvQueue' = Tail(srvQueue)
    /\ renders' = [renders EXCEPT ![Head(srvQueue)] = @ + 1]
    /\ workers' = workers \cup {Head(srvQueue)}
    /\ UNCHANGED <<clientVars, netVars, srvNextId, gateVars, tierVars, uiVars>>

SrvStage(id) ==
    /\ id \in Processing
    /\ srvJobs[id].progress = 0
    /\ srvJobs' = [srvJobs EXCEPT ![id].progress = 50]
    /\ UNCHANGED <<clientVars, netVars, srvQueue, srvNextId, gateVars, renders, workers, tierVars, uiVars>>

\* Variant of the worker's terminal write that ignores the job's status.
WorkerWriteAlways(job, status) ==
    [job EXCEPT !.status = status,
                !.progress = IF status = "completed" THEN 100 ELSE @]

\* The terminal write of a worker: it takes effect only while the job is
\* still Processing, so a result arriving after the supervisor's Timeout is
\* dropped.
WorkerWrite(job, status) ==
    IF job.status = "processing"
    THEN [job EXCEPT !.status = status,
                     !.progress = IF status = "completed" THEN 100 ELSE @]
    ELSE job

\* The worker of a Processing job ends with a result or an error.
SrvFinish(id, status) ==
    /\ id \in Processing
    /\ srvJobs' = [srvJobs EXCEPT ![id] = WorkerWrite(@, status)]
    /\ workers' = workers \ {id}
    /\ UNCHANGED <<clientVars, netVars, srvQueue, srvNextId, gateVars, renders, tierVars, uiVars>>

SrvComplete(id) == SrvFinish(id, "completed")
SrvFail(id) == SrvFinish(id, "failed")

\* The supervising timer fires for a job still Processing: the job is set to
\* Timeout and its slot is free again; the execution unit itself may still run.
SrvTimeout(id) ==
    /\ id \in Processing
    /\ srvJobs' = [srvJobs EXCEPT ![id].status = "timeout"]
    /\ UNCHANGED <<clientVars, netVars, srvQueue, srvNextId, gateVars, renders, workers, tierVars, uiVars>>

\* An execution unit that outlived its job's Timeout ends (killed, cancelled
\* at a stage boundary, or finishing late with a result).
SrvLateFinish(id, status) ==
    /\ id \in workers
    /\ id \in DOMAIN srvJobs
    /\ id \notin Processing
    /\ srvJobs' = [srvJobs EXCEPT ![id] = WorkerWrite(@, status)]
    /\ workers' = workers \ {id}
    /\ UNCHANGED <<clientVars, netVars, srvQueue, srvNextId, gateVars, renders, tierVars, uiVars>>

SrvExpire(id) ==
    /\ id \in DOMAIN srvJobs
    /\ srvJobs[id].status = "completed"
    /\ ~srvJobs[id].expired
    /\ srvJobs' = [srvJobs EXCEPT ![id].expired = TRUE]
    /\ UNCHANGED <<clientVars, netVars, srvQueue, srvNextId, gateVars, renders, workers, tierVars, uiVars>>

SrvEvict(id) ==
    /\ id \in DOMAIN srvJobs
    /\ srvJobs[id].expired
    /\ srvJobs' = [i \in DOMAIN srvJobs \ {id} |-> srvJobs[i]]
    /\ UNCHANGED <<clientVars, netVars, srvQueue, srvNextId, gateVars, renders, workers, tierVars, uiVars>>

\* ----------------------------------------- server: get-or-create gate
\* Variant of the lock test that lets every caller in.
LockIgnored == TRUE

\* getOrCreate as concurrent callers run it (user requests and
\* pre-generation ticks): the registry lock is taken, steps 1 and 2 look the
\* fingerprint up, step 3 registers and enqueues, the lock is released.
LockFree == srvLock = 0

\* How a creation call resolves: joining a build in flight, a cache hit, or a
\* fresh build (the caller itself cannot tell them apart).
ResolvedAs(reg, fp) ==
    IF LiveJobs(reg, fp) # {} THEN "join"
    ELSE IF CachedJobs(reg, fp) # {} THEN "hit"
    ELSE "new"

GateCall(c, fp) ==
    /\ callers[c].pc = "idle"
    /\ callers' = [callers EXCEPT ![c] = [pc |-> "wait", fp |-> fp, found |-> 0,
                                        how |-> "none"]]
    /\ UNCHANGED <<clientVars, netVars, regVars, srvLock, renders, workers, tierVars, uiVars>>

\* A request failing validation is answered at once with a validation error.
CreateRejected(c) ==
    /\ callers[c].pc = "idle"
    /\ callers' = [callers EXCEPT ![c] = [pc |-> "idle", fp |-> 0, found |-> 0,
                                        how |-> "rejected"]]
    /\ UNCHANGED <<clientVars, netVars, regVars, srvLock, renders, workers, tierVars, uiVars>>

\* create() for one graph, as a caller issues it: validation, then the gate.
Create(c, req) ==
    IF ValidRequest(req)
    THEN GateCall(c, Fingerprint(req))
    ELSE CreateRejected(c)

GateAcquire(c) ==
    /\ callers[c].pc = "wait"
    /\ LockFree
    /\ srvLock' = c
    /\ callers' = [callers EXCEPT ![c].pc = "lookup"]
    /\ UNCHANGED <<clientVars, netVars, regVars, renders, workers, tierVars, uiVars>>

GateLookup(c) ==
    /\ callers[c].pc = "lookup"
    /\ LET found == LookupJob(srvJobs, callers[c].fp) IN
       callers' = [callers EXCEPT ![c].found = found,
                                  ![c].pc = IF found # 0 THEN "release" ELSE "register",
                                  ![c].how = ResolvedAs(srvJobs, callers[c].fp)]
    /\ UNCHANGED <<clientVars, netVars, regVars, srvLock, renders, workers, tierVars, uiVars>>

GateRegister(c) ==
    /\ callers[c].pc = "register"
    /\ srvNextId <= MaxJobs
    /\ srvJobs' = RegisterJob(srvJobs, srvNextId, callers[c].fp)
    /\ srvQueue' = Append(srvQueue, srvNextId)
    /\ srvNextId' = srvNextId + 1
    /\ callers' = [callers EXCEPT ![c].found = srvNextId, ![c].pc = "release"]
    /\ UNCHANGED <<clientVars, netVars, srvLock, renders, workers, tierVars, uiVars>>

GateRelease(c) ==
    /\ callers[c].pc = "release"
    /\ srvLock' = IF srvLock = c THEN 0 ELSE srvLock
    /\ callers' = [callers EXCEPT ![c].pc = "idle"]
    /\ UNCHANGED <<clientVars, netVars, regVars, renders, workers, tierVars, uiVars>>

\* ------------------------------------------------ client: useGraphJobs
FreshJob(id, retryCount, isRetrying) ==
    [jobId |-> id, status |-> "pending", progress |-> 0, error |-> NoError,
     resultUrl |-> 0, retryCount |-> retryCount, isRetrying |-> isRetrying,
     pollingFailureCount |-> 0]

\* Requests in flight.  The server's answer is computed when the response is
\* processed, from the server state of that moment.
StatusCall(ids) == [ids |-> ids]
CreateCall(kind, gs, auto) ==
    [kind |-> kind, graphs |-> gs, auto |-> auto, params |-> params]

\* Variant of the poll that sends one status request per job id.
SendPollPerJob(calls, ids) ==
    calls (+) SetToBag({StatusCall(<<ids[i]>>) : i \in 1..Len(ids)})

\* pollStatus up to the fetch: nothing is sent when no id is polled.
SendPoll(calls, ids) == IF ids = <<>> THEN calls ELSE calls (+) One(StatusCall(ids))

PollRoom == BagCardinality(statusCalls) < MaxPolls

\* Variants of the retry condition: without the retryCount test, and with the
\* threshold test dropped.
ShouldAutoRetryAgain(job, newFailureCount) ==
    newFailureCount >= POLLING_FAILURE_THRESHOLD

ShouldAutoRetryAtOnce(job, newFailureCount) ==
    job.retryCount = 0

\* handlePollingFailure: the condition that turns a failure into a retry.
ShouldAutoRetry(job, newFailureCount) ==
    newFailureCount >= POLLING_FAILURE_THRESHOLD /\ job.retryCount = 0

\* Variant of the failure update that counts the failure for every entry.
FailureUpdateAnyStatus(job, msg) ==
    LET n == job.pollingFailureCount + 1 IN
    IF job.status \in Outstanding /\ n >= POLLING_FAILURE_THRESHOLD /\ job.retryCount = 0
    THEN [job EXCEPT !.pollingFailureCount = n, !.status = "failed", !.error = msg]
    ELSE [job EXCEPT !.pollingFailureCount = n]

\* Variant of the failure update that counts the failure and leaves the status.
FailureUpdateCountOnly(job, msg) ==
    IF job.status \in Outstanding
    THEN [job EXCEPT !.pollingFailureCount = @ + 1]
    ELSE job

FailureUpdate(job, msg) ==
    IF job.status \in Outstanding
    THEN LET n == job.pollingFailureCount + 1 IN
         IF ShouldAutoRetry(job, n)
         THEN [job EXCEPT !.pollingFailureCount = n, !.status = "failed", !.error = msg]
         ELSE [job EXCEPT !.pollingFailureCount = n]
    ELSE job

FailureRetryTargets(js) ==
    SetToSeq({g \in DOMAIN js :
                /\ js[g].status \in Outstanding
                /\ ShouldAutoRetry(js[g], js[g].pollingFailureCount + 1)})

HandlePollingFailure(msg) ==
    IF ~mountedRef
    THEN UNCHANGED <<jobs, pendingRetriesRef>>
    ELSE /\ jobs' = [g \in DOMAIN jobs |-> FailureUpdate(jobs[g], msg)]
         /\ pendingRetriesRef' = pendingRetriesRef \o FailureRetryTargets(jobs)

\* pollStatus, the update applied to a successful response.
GraphOfJob(js, id) ==
    LET S == {g \in DOMAIN js : js[g].jobId = id} IN
    IF S = {} THEN 0 ELSE Min(S)

Matched(js, data) == {id \in DOMAIN data : GraphOfJob(js, id) # 0}

\* Variant of the update that keeps the failure count.
StatusUpdateKeepCount(job, id, st) ==
    [job EXCEPT !.status = st.status,
                !.progress = st.progress,
                !.error = st.error,
                !.resultUrl = IF st.status = "completed" THEN id ELSE 0]

StatusUpdate(job, id, st) ==
    [job EXCEPT !.status = st.status,
                !.progress = st.progress,
                !.error = st.error,
                !.pollingFailureCount = 0,
                !.resultUrl = IF st.status = "completed" THEN id ELSE 0]

PolledJobs(js, data) ==
    [g \in DOMAIN js |->
        IF js[g].jobId \in DOMAIN data /\ GraphOfJob(js, js[g].jobId) = g
        THEN StatusUpdate(js[g], js[g].jobId, data[js[g].jobId])
        ELSE js[g]]

\* Variant of the retry test that lets only a reported failed job retry.
IsFailedRetryFailedOnly(job, st) ==
    st.status = "failed" /\ job.retryCount = 0

IsFailedRetry(job, st) ==
    st.status \in {"failed", "timeout"} /\ job.retryCount = 0

StatusRetryTargets(js, data) ==
    LET ids == SetToSeq({id \in Matched(js, data) :
                            IsFailedRetry(js[GraphOfJob(js, id)], data[id])})
    IN [i \in 1..Len(ids) |-> GraphOfJob(js, ids[i])]

CompletedJobIds(js, data) ==
    {id \in Matched(js, data) : data[id].status \in Terminal}

AllCompleted(js, data) ==
    \A id \in Matched(js, data) : data[id].status \in Terminal

\* data.jobs of a create response: its graphs, and the id stored for a graph
\* (a later entry for the same graph overwrites an earlier one).
OutGraphs(out) == {out[i].graph : i \in 1..Len(out)}
OutId(out, g) == out[Max({i \in 1..Len(out) : out[i].graph = g})].id

\* The mount effect: createJobs up to the fetch.
MountEffect ==
    /\ hookPc = "init"
    /\ hookPc' = "mounted"
    /\ mountedRef' = TRUE
    /\ isLoading' = TRUE
    /\ pollingRef' = FALSE
    /\ createCalls' = createCalls (+) One(CreateCall("batch", SetToSeq(Graphs), FALSE))
    /\ UNCHANGED <<jobs, jobIdsRef, pendingRetriesRef, params, manualCount, autoCreates,
                   baseJobs, statusCalls, regVars, gateVars, renders, workers, tierVars, uiVars>>

\* dateRange, limitAltitude or the graph list changed: the effect's cleanup
\* runs (mountedRef false, stopPolling), then the effect runs again with the
\* new parameters (mountedRef true, createJobs up to the fetch).  Requests in
\* flight are not cancelled and the job table is kept until a response arrives.
ParamsChange ==
    /\ hookPc = "mounted"
    /\ params < MaxParams
    /\ BagCardinality(createCalls) < MaxCreates
    /\ params' = params + 1
    /\ mountedRef' = TRUE
    /\ isLoading' = TRUE
    /\ pollingRef' = FALSE
    /\ createCalls' = createCalls (+)
          One([CreateCall("batch", SetToSeq(Graphs), FALSE) EXCEPT !.params = params + 1])
    /\ UNCHANGED <<jobs, jobIdsRef, pendingRetriesRef, hookPc, manualCount, autoCreates,
                   baseJobs, statusCalls, regVars, gateVars, renders, workers, tierVars, uiVars>>

\* The component is removed: the effect's cleanup runs and no effect or event
\* handler runs afterwards.  Requests in flight are not cancelled.
Unmount ==
    /\ hookPc = "mounted"
    /\ hookPc' = "unmounted"
    /\ mountedRef' = FALSE
    /\ pollingRef' = FALSE
    /\ UNCHANGED <<jobs, isLoading, jobIdsRef, pendingRetriesRef, params, manualCount,
                   autoCreates, baseJobs, netVars, regVars, gateVars, renders, workers,
                   tierVars, uiVars>>

\* createJobs after the server answered POST /job with 2xx.
CreateJobsOk(m) ==
    /\ BagIn(m, createCalls)
    /\ m.kind = "batch"
    /\ createCalls' = createCalls (-) One(m)
    /\ LET r == CreateAll(RegState, m.graphs, m.params, <<>>) IN
       /\ r.st.next <= MaxJobs + 1
       /\ srvJobs' = r.st.jobs
       /\ srvQueue' = r.st.queue
       /\ srvNextId' = r.st.next
       /\ IF ~mountedRef
          THEN UNCHANGED <<jobs, jobIdsRef, pollingRef, statusCalls, baseJobs>>
          ELSE /\ PollRoom
               /\ jobs' = [g \in OutGraphs(r.out) |-> FreshJob(OutId(r.out, g), 0, FALSE)]
               /\ jobIdsRef' = [i \in 1..Len(r.out) |-> r.out[i].id]
               /\ pollingRef' = TRUE
               /\ statusCalls' = SendPoll(statusCalls, jobIdsRef')
               /\ baseJobs' = [g \in Graphs |->
                                 IF g \in DOMAIN jobs' THEN baseJobs[g] + 1
                                 ELSE baseJobs[g]]
    /\ UNCHANGED <<isLoading, mountedRef, pendingRetriesRef, hookPc, params, manualCount,
                   autoCreates, gateVars, renders, workers, tierVars, uiVars>>

\* The batch create was rejected or failed on the network.
CreateJobsFail(m) ==
    /\ BagIn(m, createCalls)
    /\ m.kind = "batch"
    /\ createCalls' = createCalls (-) One(m)
    /\ isLoading' = FALSE
    /\ UNCHANGED <<jobs, pollingRef, jobIdsRef, mountedRef, pendingRetriesRef,
                   hookPc, params, manualCount, autoCreates, baseJobs, statusCalls,
                   regVars, gateVars, renders, workers, tierVars, uiVars>>

\* The interval timer fires: pollStatus up to the fetch.
Tick ==
    /\ pollingRef
    /\ jobIdsRef # <<>>
    /\ PollRoom
    /\ statusCalls' = SendPoll(statusCalls, jobIdsRef)
    /\ UNCHANGED <<clientVars, createCalls, regVars, gateVars, renders, workers, tierVars, uiVars>>

\* pollStatus after the server answered POST /jobs/status with 2xx.
PollOk(m) ==
    /\ BagIn(m, statusCalls)
    /\ statusCalls' = statusCalls (-) One(m)
    /\ LET data == BatchStatus(m.ids) IN
       /\ Len(pendingRetriesRef) + Len(StatusRetryTargets(jobs, data)) <= MaxPending
       /\ IF ~mountedRef
          THEN UNCHANGED <<jobs, pendingRetriesRef, jobIdsRef, pollingRef, isLoading>>
          ELSE /\ jobs' = PolledJobs(jobs, data)
               /\ pendingRetriesRef' = pendingRetriesRef \o StatusRetryTargets(jobs, data)
               /\ jobIdsRef' = FilterOut(jobIdsRef, CompletedJobIds(jobs, data))
               /\ IF AllCompleted(jobs, data) /\ StatusRetryTargets(jobs, data) = <<>>
                  THEN pollingRef' = FALSE /\ isLoading' = FALSE
                  ELSE UNCHANGED <<pollingRef, isLoading>>
    /\ UNCHANGED <<mountedRef, hookPc, params, manualCount, autoCreates, baseJobs,
                   createCalls, regVars, gateVars, renders, workers, tierVars, uiVars>>

\* pollStatus after a non-2xx response or a network error.
PollFail(m, msg) ==
    /\ BagIn(m, statusCalls)
    /\ \A g \in DOMAIN jobs :
          jobs[g].status \in Outstanding => jobs[g].pollingFailureCount < MaxFailCount
    /\ Len(pendingRetriesRef) + Len(FailureRetryTargets(jobs)) <= MaxPending
    /\ statusCalls' = statusCalls (-) One(m)
    /\ HandlePollingFailure(msg)
    /\ UNCHANGED <<isLoading, pollingRef, jobIdsRef, mountedRef, hookPc, params, manualCount,
                   autoCreates, baseJobs, createCalls, regVars, gateVars, renders, workers, tierVars, uiVars>>

\* reloadJob(graphName, true) up to the fetch: the entry is shown as retrying.
MarkRetrying(job) ==
    [job EXCEPT !.isRetrying = TRUE, !.status = "pending", !.progress = 0,
                !.error = NoError]

Count(s, x) == Cardinality({i \in 1..Len(s) : s[i] = x})

RECURSIVE SendReloads(_, _)
SendReloads(calls, gs) ==
    IF gs = <<>> THEN calls
    ELSE SendReloads(calls (+) One(CreateCall("reload", <<Head(gs)>>, TRUE)), Tail(gs))

\* The effect on [jobs, reloadJob]: every pending automatic retry is started.
AutoRetryEffect ==
    /\ hookPc = "mounted"
    /\ pendingRetriesRef # <<>>
    /\ BagCardinality(createCalls) + Len(pendingRetriesRef) <= MaxCreates
    /\ \A g \in Graphs : autoCreates[g] + Count(pendingRetriesRef, g) <= MaxAuto
    /\ pendingRetriesRef' = <<>>
    /\ jobs' = [g \in DOMAIN jobs |->
                  IF g \in Range(pendingRetriesRef) THEN MarkRetrying(jobs[g]) ELSE jobs[g]]
    /\ createCalls' = SendReloads(createCalls, pendingRetriesRef)
    /\ autoCreates' = [g \in Graphs |-> autoCreates[g] + Count(pendingRetriesRef, g)]
    /\ UNCHANGED <<isLoading, pollingRef, jobIdsRef, mountedRef, hookPc, params, manualCount,
                   baseJobs, statusCalls, regVars, gateVars, renders, workers, tierVars, uiVars>>

\* GraphDisplay, per graph.
IsJobLoading(g) ==
    /\ (g \notin DOMAIN jobs \/ jobs[g].status \in Outstanding)
    /\ ~(g \in DOMAIN jobs /\ jobs[g].isRetrying)
HasError(g) == g \in DOMAIN jobs /\ jobs[g].status \in {"failed", "timeout"}
ShowsRetrying(g) == g \in DOMAIN jobs /\ jobs[g].isRetrying
ShowsErrorPanel(g) == HasError(g) /\ ~jobs[g].isRetrying
ShowsImage(g) ==
    g \in DOMAIN jobs /\ jobs[g].status = "completed" /\ jobs[g].resultUrl # 0

\* reloadJob(graphName) from the reload button or from the image's onError.
SendManualReload(g) ==
    /\ hookPc = "mounted"
    /\ manualCount < MaxManual
    /\ BagCardinality(createCalls) < MaxCreates
    /\ manualCount' = manualCount + 1
    /\ createCalls' = createCalls (+) One(CreateCall("reload", <<g>>, FALSE))
    /\ UNCHANGED <<jobs, isLoading, pollingRef, jobIdsRef, mountedRef,
                   pendingRetriesRef, hookPc, params, autoCreates, baseJobs, statusCalls,
                   regVars, gateVars, renders, workers, tierVars, uiVars>>

ReloadClick(g) == ShowsErrorPanel(g) /\ SendManualReload(g)

ImageError(g) == ShowsImage(g) /\ SendManualReload(g)

\* reloadJob after the response arrived.
\* Variant of the installed entry that counts a manual reload as a retry.
ReloadedJobCounted(js, g, id, auto) ==
    FreshJob(id, (IF g \in DOMAIN js THEN js[g].retryCount ELSE 0) + 1, auto)

ReloadedJob(js, g, id, auto) ==
    FreshJob(id, IF auto THEN (IF g \in DOMAIN js THEN js[g].retryCount ELSE 0) + 1 ELSE 0,
             auto)

\* The job table after the response is installed: { ...prev, [graphName]: ... }.
ReloadedJobs(js, g, id, auto) ==
    [k \in DOMAIN js \cup {g} |->
        IF k = g THEN ReloadedJob(js, g, id, auto) ELSE js[k]]

ReloadOk(m) ==
    /\ BagIn(m, createCalls)
    /\ m.kind = "reload"
    /\ createCalls' = createCalls (-) One(m)
    /\ LET g == m.graphs[1]
           r == CreateAll(RegState, m.graphs, m.params, <<>>)
           id == r.out[1].id
       IN /\ r.st.next <= MaxJobs + 1
          /\ srvJobs' = r.st.jobs
          /\ srvQueue' = r.st.queue
          /\ srvNextId' = r.st.next
          /\ jobs' = ReloadedJobs(jobs, g, id, m.auto)
          /\ jobIdsRef' = Append(jobIdsRef, id)
          /\ baseJobs' = IF m.auto THEN baseJobs ELSE [baseJobs EXCEPT ![g] = @ + 1]
    /\ IF ~pollingRef
       THEN /\ PollRoom
            /\ pollingRef' = TRUE
            /\ statusCalls' = SendPoll(statusCalls, jobIdsRef')
            /\ isLoading' = TRUE
       ELSE UNCHANGED <<pollingRef, statusCalls, isLoading>>
    /\ UNCHANGED <<mountedRef, pendingRetriesRef, hookPc, params, manualCount, autoCreates,
                   gateVars, renders, workers, tierVars, uiVars>>

\* Variant of the catch block that leaves the entry retrying.
RetryFailedStillRetrying(job) ==
    [job EXCEPT !.status = "failed", !.error = ConnectionError]

\* reloadJob's catch block, the entry of an automatic retry.
RetryFailed(job) ==
    [job EXCEPT !.status = "failed", !.error = ConnectionError, !.isRetrying = FALSE]

\* reloadJob's catch block.
ReloadFail(m) ==
    /\ BagIn(m, createCalls)
    /\ m.kind = "reload"
    /\ createCalls' = createCalls (-) One(m)
    /\ LET g == m.graphs[1] IN
       jobs' = IF m.auto /\ g \in DOMAIN jobs
               THEN [jobs EXCEPT ![g] = RetryFailed(jobs[g])]
               ELSE jobs
    /\ UNCHANGED <<isLoading, pollingRef, jobIdsRef, mountedRef, pendingRetriesRef,
                   hookPc, params, manualCount, autoCreates, baseJobs, statusCalls,
                   regVars, gateVars, renders, workers, tierVars, uiVars>>

\* ------------------------------------------------ App and DateSelector
\* Time is a line of integer instants; a minute is MinuteLen of them and a day
\* a whole number of minutes.  The app is constructed at InitNow, the handlers
\* read the clock at any later instant of the line.
DayLen == MinuteLen * MinutesPerDay
DefaultDays == 7
QuickDays == {1, DefaultDays}
InitNow == DefaultDays * DayLen
MaxClock == InitNow + ClockSlack
Clock == 0..MaxClock
Later == InitNow..MaxClock
MinuteTimes == {t \in Clock : t % MinuteLen = 0}
DataRanges == {<<e, l>> : e \in Clock, l \in Clock}

\* setSeconds(0, 0): the instant truncated to its minute.
Floor(t) == t - (t % MinuteLen)

\* getInitialDate without URL parameters, at instant t.
GetInitialDate(t) == <<Floor(t - DefaultDays * DayLen), Floor(t)>>

\* fetchDataRange: the adjustment of the initial range to the data range dr.
InitialAdjust(t, dr) ==
    LET cur == GetInitialDate(t)
        endClipped == cur[2] > dr[2]
        end == IF endClipped THEN Floor(dr[2]) ELSE cur[2]
        startClipped == cur[1] < dr[1]
        start1 == IF startClipped THEN Floor(dr[1]) ELSE cur[1]
        recalculated == end - DefaultDays * DayLen
        kept == recalculated >= dr[1]
        start == IF kept THEN Floor(recalculated) ELSE start1
    IN [needsAdjustment |-> endClipped \/ startClipped \/ kept,
        start |-> start, end |-> end]

\* handleQuickSelect(days, period) at instant t, with data range dr or <<>>.
QuickSelect(days, t, dr) ==
    LET end0 == Floor(t)
        start0 == Floor(end0 - days * DayLen)
    IN IF dr = <<>> THEN <<start0, end0>>
       ELSE LET end == IF end0 > dr[2] THEN Floor(dr[2]) ELSE end0
                start1 == IF start0 < dr[1] THEN Floor(dr[1]) ELSE start0
                adjustedStart == end - days * DayLen
            IN <<IF adjustedStart >= dr[1] THEN Floor(adjustedStart) ELSE start1, end>>

\* Variant of the custom-range handler without the check after clipping.
CustomDateChangeUnchecked(customStart, customEnd, dr) ==
    LET start0 == Floor(customStart)
        end0 == Floor(customEnd)
        start == IF dr # <<>> /\ start0 < dr[1] THEN Floor(dr[1]) ELSE start0
        end == IF dr # <<>> /\ end0 > dr[2] THEN Floor(dr[2]) ELSE end0
    IN [ok |-> ~(start0 > end0), start |-> start, end |-> end]

\* handleCustomDateChange: ok is FALSE when the handler returns after an alert.
CustomDateChange(customStart, customEnd, dr) ==
    LET start0 == Floor(customStart)
        end0 == Floor(customEnd)
    IN IF start0 > end0 THEN [ok |-> FALSE, start |-> start0, end |-> end0]
       ELSE IF dr = <<>> THEN [ok |-> TRUE, start |-> start0, end |-> end0]
       ELSE LET start == IF start0 < dr[1] THEN Floor(dr[1]) ELSE start0
                end == IF end0 > dr[2] THEN Floor(dr[2]) ELSE end0
            IN [ok |-> ~(start > end), start |-> start, end |-> end]

DateLog(op, called) == [op |-> op, called |-> called]

\* The data-range request of the mount effect is answered with a range.
FetchDataRange(dr, t) ==
    /\ ~isInitialDateRangeSet
    /\ dataRange' = dr
    /\ LET a == InitialAdjust(t, dr) IN
       /\ dateRange' = IF a.needsAdjustment THEN <<a.start, a.end>> ELSE dateRange
       /\ dateLog' = DateLog("initial", a.needsAdjustment)
    /\ isInitialDateRangeSet' = TRUE
    /\ UNCHANGED <<clientVars, netVars, regVars, gateVars, renders, workers, tierVars,
                   imgVars, builtVars,
                   urlVars>>

\* The data-range request fails: the initialisation is completed unadjusted.
FetchDataRangeFail ==
    /\ ~isInitialDateRangeSet
    /\ isInitialDateRangeSet' = TRUE
    /\ dateLog' = DateLog("nodata", FALSE)
    /\ UNCHANGED <<dateRange, dataRange, clientVars, netVars, regVars, gateVars,
                   renders, workers, tierVars, imgVars, builtVars,
                   urlVars>>

\* A quick-select button is pressed: onDateChange(start, end).
HandleQuickSelect(days, t) ==
    /\ dateRange' = QuickSelect(days, t, dataRange)
    /\ dateLog' = DateLog("quick", TRUE)
    /\ UNCHANGED <<dataRange, isInitialDateRangeSet, clientVars, netVars, regVars,
                   gateVars, renders, workers, tierVars, imgVars, builtVars,
                   urlVars>>

\* The custom range is applied: onDateChange(start, end) unless an alert
\* ends the handler.
HandleCustomDateChange(customStart, customEnd) ==
    /\ LET r == CustomDateChange(customStart, customEnd, dataRange) IN
       /\ dateRange' = IF r.ok THEN <<r.start, r.end>> ELSE dateRange
       /\ dateLog' = DateLog("custom", r.ok)
    /\ UNCHANGED <<dataRange, isInitialDateRangeSet, clientVars, netVars, regVars,
                   gateVars, renders, workers, tierVars, imgVars, builtVars,
                   urlVars>>

\* ------------------------------------------- GraphDisplay: image loading
Images == 1..NumImages
WallTimes == 0..MaxWall
Randoms == 1..NumRandom
ImageRanges == {<<0, MinuteLen>>, <<MinuteLen, MinuteLen>>}

NoMessage == ""
LoadError == "load failed"
LoadTimeout == "load timed out"
NoTimer == <<>>

\* Math.floor(now / tenMinutesInMs) * tenMinutesInMs
TimeSlot(t) == (t \div TenMinutes) * TenMinutes

\* Variant of getImageUrl that never floors the timestamp.
GetImageUrlUnfloored(range, forceReload, t) ==
    [start |-> range[1], end |-> range[2], t |-> t]

\* getImageUrl(graph, forceReload) at instant t, for one endpoint.
GetImageUrl(range, forceReload, t) ==
    [start |-> range[1], end |-> range[2],
     t |-> IF forceReload THEN t ELSE TimeSlot(t)]

\* generateSettingsKey(start, end, limitAltitude) at instant t.
GenerateSettingsKey(start, end, limit, t) ==
    <<start, end, limit, TimeSlot(t)>>

\* buildImageUrl at instant t; rnd is the value drawn from Math.random().
BuildImageUrl(start, end, limit, forceReload, t, rnd) ==
    [start |-> start, end |-> end, limit_altitude |-> limit,
     t |-> GenerateSettingsKey(start, end, limit, t),
     r |-> IF forceReload THEN <<rnd>> ELSE <<>>]

\* The img element after its src is set: a new URL starts a new request.
Requested(k, url) == IF url # imageUrls[k] THEN "pending" ELSE imgState[k]

Timer(count, due) == [count |-> count, due |-> due]

\* The component is rendered with a new dateRange and its effect runs:
\* every image gets the cached URL, the loading state and a timeout timer.
DateRangeEffect(r) ==
    /\ wallClock + (MAX_RETRY_COUNT + 1) * ImageLoadTimeout <= MaxWall
    /\ propDateRange' = r
    /\ imageUrls' = [k \in Images |-> GetImageUrl(r, FALSE, wallClock)]
    /\ imgState' = [k \in Images |-> Requested(k, GetImageUrl(r, FALSE, wallClock))]
    /\ loading' = [k \in Images |-> TRUE]
    /\ errors' = [k \in Images |-> NoMessage]
    /\ imageRetryCount' = [k \in Images |-> 0]
    /\ loadingTimers' = [k \in Images |-> Timer(0, wallClock + ImageLoadTimeout)]
    /\ UNCHANGED <<wallClock, isUpdatingStateRef, builtVars, dateVars, clientVars,
                   netVars, regVars, gateVars, renders, workers, tierVars, urlVars>>

\* handleImageLoad(key) while the img element is complete and valid; timers
\* are the timers still pending when it is called.
HandleImageLoad(k, timers) ==
    IF isUpdatingStateRef
    THEN /\ loadingTimers' = timers
         /\ UNCHANGED <<loading, imageRetryCount, isUpdatingStateRef>>
    ELSE /\ isUpdatingStateRef' = TRUE
         /\ loadingTimers' = [timers EXCEPT ![k] = NoTimer]
         /\ loading' = [loading EXCEPT ![k] = FALSE]
         /\ imageRetryCount' = [imageRetryCount EXCEPT ![k] = 0]

\* handleImageError(key, title).
HandleImageError(k, timers) ==
    IF isUpdatingStateRef
    THEN /\ loadingTimers' = timers
         /\ UNCHANGED <<loading, errors, isUpdatingStateRef>>
    ELSE /\ isUpdatingStateRef' = TRUE
         /\ loadingTimers' = [timers EXCEPT ![k] = NoTimer]
         /\ loading' = [loading EXCEPT ![k] = FALSE]
         /\ errors' = [errors EXCEPT ![k] = LoadError]

\* The request of image k succeeds and onLoad fires.
ImageLoads(k) ==
    /\ imgState[k] = "pending"
    /\ imgState' = [imgState EXCEPT ![k] = "loaded"]
    /\ HandleImageLoad(k, loadingTimers)
    /\ UNCHANGED <<wallClock, propDateRange, imageUrls, errors, builtVars, dateVars,
                   clientVars, netVars, regVars, gateVars, renders, workers, tierVars, urlVars>>

\* The request of image k fails and onError fires.
ImageFails(k) ==
    /\ imgState[k] = "pending"
    /\ imgState' = [imgState EXCEPT ![k] = "broken"]
    /\ HandleImageError(k, loadingTimers)
    /\ UNCHANGED <<wallClock, propDateRange, imageUrls, imageRetryCount, builtVars, dateVars,
                   clientVars, netVars, regVars, gateVars, renders, workers, tierVars, urlVars>>

\* retryImageLoad(key, currentRetryCount) called from a timeout check.
RetryImageLoad(k, count) ==
    IF count < MAX_RETRY_COUNT
    THEN LET newUrl == GetImageUrl(propDateRange, TRUE, wallClock) IN
         /\ imageRetryCount' = [imageRetryCount EXCEPT ![k] = count + 1]
         /\ imageUrls' = [imageUrls EXCEPT ![k] = newUrl]
         /\ imgState' = [imgState EXCEPT ![k] = Requested(k, newUrl)]
         /\ loading' = [loading EXCEPT ![k] = TRUE]
         /\ errors' = [errors EXCEPT ![k] = NoMessage]
         /\ loadingTimers' = [loadingTimers EXCEPT
                                 ![k] = Timer(count + 1, wallClock + ImageLoadTimeout)]
         /\ UNCHANGED isUpdatingStateRef
    ELSE /\ loading' = [loading EXCEPT ![k] = FALSE]
         /\ errors' = [errors EXCEPT ![k] = LoadTimeout]
         /\ loadingTimers' = [loadingTimers EXCEPT ![k] = NoTimer]
         /\ UNCHANGED <<imageRetryCount, imageUrls, imgState, isUpdatingStateRef>>

\* The timeout timer of image k fires: the timeout check of the img element.
TimerFire(k) ==
    /\ loadingTimers[k] # NoTimer
    /\ loadingTimers[k].due <= wallClock
    /\ CASE imgState[k] \in {"empty", "pending"} ->
                RetryImageLoad(k, loadingTimers[k].count)
         [] imgState[k] = "loaded" ->
                /\ HandleImageLoad(k, [loadingTimers EXCEPT ![k] = NoTimer])
                /\ UNCHANGED <<imageUrls, imgState, errors>>
         [] imgState[k] = "broken" ->
                /\ HandleImageError(k, [loadingTimers EXCEPT ![k] = NoTimer])
                /\ UNCHANGED <<imageUrls, imgState, imageRetryCount>>
    /\ UNCHANGED <<wallClock, propDateRange, builtVars, dateVars, clientVars, netVars,
                   regVars, gateVars, renders, workers, tierVars, urlVars>>

\* The setTimeout(0) callback that ends a state update.
ResetUpdating ==
    /\ isUpdatingStateRef
    /\ isUpdatingStateRef' = FALSE
    /\ UNCHANGED <<wallClock, propDateRange, imageUrls, loading, errors, imageRetryCount,
                   loadingTimers, imgState, builtVars, dateVars, clientVars, netVars,
                   regVars, gateVars, renders, workers, tierVars, urlVars>>

\* checkAllImagesStatus, when it finds an image that loaded while its
\* loading flag is still set.  The interval is taken as running.
CheckAllImagesStatus ==
    LET updatesNeeded == {k \in Images : loading[k] /\ imgState[k] = "loaded"} IN
    /\ ~isUpdatingStateRef
    /\ updatesNeeded # {}
    /\ isUpdatingStateRef' = TRUE
    /\ loading' = [k \in Images |-> IF k \in updatesNeeded THEN FALSE ELSE loading[k]]
    /\ imageRetryCount' = [k \in Images |-> IF k \in updatesNeeded THEN 0 ELSE imageRetryCount[k]]
    /\ UNCHANGED <<wallClock, propDateRange, imageUrls, errors, loadingTimers, imgState,
                   builtVars, dateVars, clientVars, netVars, regVars, gateVars, renders,
                   workers, tierVars, urlVars>>

\* handleReload(key): the reload button of an image in error.
HandleReload(k) ==
    LET newUrl == GetImageUrl(propDateRange, TRUE, wallClock) IN
    /\ propDateRange # <<>>
    /\ errors[k] # NoMessage
    /\ errors' = [errors EXCEPT ![k] = NoMessage]
    /\ imageRetryCount' = [imageRetryCount EXCEPT ![k] = 0]
    /\ loading' = [loading EXCEPT ![k] = TRUE]
    /\ imageUrls' = [imageUrls EXCEPT ![k] = newUrl]
    /\ imgState' = [imgState EXCEPT ![k] = Requested(k, newUrl)]
    /\ UNCHANGED <<wallClock, propDateRange, loadingTimers, isUpdatingStateRef, builtVars,
                   dateVars, clientVars, netVars, regVars, gateVars, renders, workers,
                   tierVars, urlVars>>

\* Time passes.  A timer that is due fires first, and so does the
\* setTimeout(0) callback of a state update.
Advance ==
    /\ wallClock < MaxWall
    /\ ~isUpdatingStateRef
    /\ \A k \in Images : loadingTimers[k] # NoTimer => loadingTimers[k].due > wallClock
    /\ wallClock' = wallClock + 1
    /\ UNCHANGED <<propDateRange, imageUrls, loading, errors, imageRetryCount, loadingTimers,
                   imgState, isUpdatingStateRef, builtVars, dateVars, clientVars, netVars,
                   regVars, gateVars, renders, workers, tierVars, urlVars>>

\* ------------------------------------------- GraphDisplay: settings key
\* currentSettingsKey of the props.
SettingsKey(props) == props

\* The component is rendered with new props and the settings effect runs.
SettingsEffect(props) ==
    /\ builtProps' = props
    /\ IF lastSettingsRef = SettingsKey(props)
       THEN UNCHANGED <<lastSettingsRef, builtUrl, builtLoading, builtError>>
       ELSE /\ lastSettingsRef' = SettingsKey(props)
            /\ builtUrl' = BuildImageUrl(props[1], props[2], props[3], FALSE, wallClock, 0)
            /\ builtLoading' = TRUE
            /\ builtError' = NoMessage
    /\ UNCHANGED <<imgVars, dateVars, clientVars, netVars, regVars, gateVars, renders,
                   workers, tierVars, urlVars>>

\* handleReload(endpoint) of the settings-key display.
HandleReloadBuilt(rnd) ==
    /\ builtProps # <<>>
    /\ builtLoading' = TRUE
    /\ builtError' = NoMessage
    /\ builtUrl' = BuildImageUrl(builtProps[1], builtProps[2], builtProps[3], TRUE,
                                 wallClock, rnd)
    /\ UNCHANGED <<builtProps, lastSettingsRef, imgVars, dateVars, clientVars, netVars,
                   regVars, gateVars, renders, workers, tierVars, urlVars>>

\* -------------------------------------------------- App: URL parameters
PeriodTypes == {"1day", "7days", "30days", "180days", "365days", "custom"}
PERIOD_DAYS ==
    ("1day" :> 1) @@ ("7days" :> 7) @@ ("30days" :> 30) @@ ("180days" :> 180)
        @@ ("365days" :> 365)
DefaultPeriod == "7days"
NoPeriod == "null"
NoDate == -1
NoParams == <<>>

\* The host time zone: summer time ends at minute FallBackMinute, where the
\* local clock is set back by DstMinutes.
FallBack == FallBackMinute * MinuteLen
UtcOffset(t) == IF t < FallBack THEN DstMinutes * MinuteLen ELSE 0

\* getFullYear() .. getMinutes(): the local wall-clock minute of instant t.
LocalMinute(t) == (t + UtcOffset(t)) \div MinuteLen

\* formatDateForUrl: the local date and time without seconds.
FormatDateForUrl(t) == <<LocalMinute(t)>>

\* new Date(year, month, day, hours, minutes, 0, 0): the instant of a local
\* wall-clock minute; a repeated local time is the one before the transition.
LocalInstants(minute) ==
    {t \in 0..(MaxClock + DstMinutes * MinuteLen) :
        t % MinuteLen = 0 /\ LocalMinute(t) = minute}

\* parseDateFromUrl(params.get(key) || "")
ParseDateFromUrl(search, key) ==
    IF key \notin DOMAIN search THEN NoDate
    ELSE LET found == LocalInstants(search[key][1]) IN
         IF found = {} THEN NoDate
         ELSE CHOOSE t \in found : \A u \in found : t <= u

ParsedUrlState(has, period, start, end, lim) ==
    [hasUrlParams |-> has, period |-> period, start |-> start, end |-> end,
     limitAltitude |-> lim]

\* parseUrlParams on the query string search.
ParseUrlParams(search) ==
    LET lim == "limitAltitude" \in DOMAIN search /\ search["limitAltitude"] = "true"
        start == ParseDateFromUrl(search, "start")
        end == ParseDateFromUrl(search, "end")
    IN IF "period" \in DOMAIN search /\ search["period"] \in DOMAIN PERIOD_DAYS
       THEN ParsedUrlState(TRUE, search["period"], NoDate, NoDate, lim)
       ELSE IF start # NoDate /\ end # NoDate
       THEN ParsedUrlState(TRUE, "custom", start, end, lim)
       ELSE IF "limitAltitude" \in DOMAIN search
       THEN ParsedUrlState(TRUE, NoPeriod, NoDate, NoDate, lim)
       ELSE ParsedUrlState(FALSE, NoPeriod, NoDate, NoDate, FALSE)

\* Variant of updateUrl without the case of the default state.
UpdateUrlNoDefault(period, start, end, lim) ==
    (IF period = "custom"
     THEN ("start" :> FormatDateForUrl(start)) @@ ("end" :> FormatDateForUrl(end))
     ELSE ("period" :> period))
    @@ (IF lim THEN ("limitAltitude" :> "true") ELSE NoParams)

\* updateUrl(period, start, end, limitAltitude): the query string it leaves.
UpdateUrl(period, start, end, lim) ==
    IF period = DefaultPeriod /\ ~lim THEN NoParams
    ELSE (IF period = "custom"
          THEN ("start" :> FormatDateForUrl(start)) @@ ("end" :> FormatDateForUrl(end))
          ELSE ("period" :> period))
         @@ (IF lim THEN ("limitAltitude" :> "true") ELSE NoParams)

\* App: getInitialPeriod, getInitialLimitAltitude and getInitialDate on the
\* parsed URL state, at instant t.
GetInitialPeriod(urlParams) ==
    IF urlParams.hasUrlParams /\ urlParams.period # NoPeriod
    THEN urlParams.period ELSE DefaultPeriod

GetInitialLimitAltitude(urlParams) ==
    IF urlParams.hasUrlParams THEN urlParams.limitAltitude ELSE FALSE

GetInitialDateFor(urlParams, t) ==
    IF /\ urlParams.hasUrlParams /\ urlParams.period = "custom"
       /\ urlParams.start # NoDate /\ urlParams.end # NoDate
    THEN <<urlParams.start, urlParams.end>>
    ELSE LET period == GetInitialPeriod(urlParams)
             days == IF period = "custom" THEN DefaultDays ELSE PERIOD_DAYS[period]
         IN <<Floor(t - days * DayLen), Floor(t)>>

\* handlePeriodChange(period, start, end)
HandlePeriodChange(period, start, end) ==
    /\ dateRange' = <<start, end>>
    /\ selectedPeriod' = period
    /\ locationSearch' = UpdateUrl(period, start, end, limitAltitude)
    /\ UNCHANGED <<limitAltitude, dataRange, isInitialDateRangeSet, dateLog, imgVars,
                   builtVars, clientVars, netVars, regVars, gateVars, renders, workers,
                   tierVars>>

\* handleAltitudeChange(limited)
HandleAltitudeChange(limited) ==
    /\ limitAltitude' = limited
    /\ locationSearch' = UpdateUrl(selectedPeriod, dateRange[1], dateRange[2], limited)
    /\ UNCHANGED <<selectedPeriod, dateVars, imgVars, builtVars, clientVars, netVars,
                   regVars, gateVars, renders, workers, tierVars>>

\* handleTitleClick at instant t: back to the default state, resetUrl().
HandleTitleClick(t) ==
    /\ dateRange' = GetInitialDate(t)
    /\ selectedPeriod' = DefaultPeriod
    /\ limitAltitude' = FALSE
    /\ locationSearch' = NoParams
    /\ UNCHANGED <<dataRange, isInitialDateRangeSet, dateLog, imgVars, builtVars,
                   clientVars, netVars, regVars, gateVars, renders, workers, tierVars>>

\* The page is loaded again at instant t: App starts from the URL.
PageLoad(t) ==
    LET urlParams == ParseUrlParams(locationSearch) IN
    /\ dateRange' = GetInitialDateFor(urlParams, t)
    /\ selectedPeriod' = GetInitialPeriod(urlParams)
    /\ limitAltitude' = GetInitialLimitAltitude(urlParams)
    /\ isInitialDateRangeSet' = urlParams.hasUrlParams
    /\ dataRange' = <<>>
    /\ dateLog' = DateLog("none", FALSE)
    /\ UNCHANGED <<locationSearch, imgVars, builtVars, clientVars, netVars, regVars,
                   gateVars, renders, workers, tierVars>>

\* ------------------------------------------------------- specification
Init ==
    /\ jobs = [g \in {} |-> 0]
    /\ isLoading = FALSE
    /\ pollingRef = FALSE
    /\ jobIdsRef = <<>>
    /\ mountedRef = TRUE
    /\ pendingRetriesRef = <<>>
    /\ hookPc = "init"
    /\ params = 0
    /\ statusCalls = EmptyBag
    /\ createCalls = EmptyBag
    /\ manualCount = 0
    /\ autoCreates = [g \in Graphs |-> 0]
    /\ baseJobs = [g \in Graphs |-> 0]
    /\ srvJobs = [id \in {} |-> 0]
    /\ srvQueue = <<>>
    /\ srvNextId = 1
    /\ srvLock = 0
    /\ callers = [c \in Callers |-> [pc |-> "idle", fp |-> 0, found |-> 0, how |-> "none"]]
    /\ renders = [id \in JobIds |-> 0]
    /\ workers = {}
    /\ spans = <<0, 0>>
    /\ tiers = <<>>
    /\ dateRange = GetInitialDate(InitNow)
    /\ dataRange = <<>>
    /\ isInitialDateRangeSet = FALSE
    /\ dateLog = DateLog("none", FALSE)
    /\ wallClock = 0
    /\ propDateRange = <<>>
    /\ imageUrls = [k \in Images |-> <<>>]
    /\ loading = [k \in Images |-> TRUE]
    /\ errors = [k \in Images |-> NoMessage]
    /\ imageRetryCount = [k \in Images |-> 0]
    /\ loadingTimers = [k \in Images |-> NoTimer]
    /\ imgState = [k \in Images |-> "empty"]
    /\ isUpdatingStateRef = FALSE
    /\ builtProps = <<>>
    /\ lastSettingsRef = <<>>
    /\ builtUrl = <<>>
    /\ builtLoading = TRUE
    /\ builtError = NoMessage
    /\ selectedPeriod = DefaultPeriod
    /\ limitAltitude = FALSE
    /\ locationSearch = NoParams

PoolNext ==
    \/ SrvDequeue
    \/ \E id \in JobIds : SrvStage(id)
    \/ \E id \in JobIds : SrvComplete(id)
    \/ \E id \in JobIds : SrvFail(id)
    \/ \E id \in JobIds : SrvTimeout(id)

Next ==
    \/ MountEffect
    \/ \E m \in BagToSet(createCalls) : CreateJobsOk(m)
    \/ \E m \in BagToSet(createCalls) : CreateJobsFail(m)
    \/ Tick
    \/ \E m \in BagToSet(statusCalls) : PollOk(m)
    \/ \E m \in BagToSet(statusCalls), msg \in PollErrors : PollFail(m, msg)
    \/ AutoRetryEffect
    \/ \E g \in Graphs : ReloadClick(g)
    \/ \E g \in Graphs : ImageError(g)
    \/ \E m \in BagToSet(createCalls) : ReloadOk(m)
    \/ \E m \in BagToSet(createCalls) : ReloadFail(m)
    \/ PoolNext

Spec == Init /\ [][Next]_vars

\* The hook while its parameters change, where no poll and no job fails:
\* every status call is answered, every job is rendered, every image loads.
ParamNext ==
    \/ MountEffect
    \/ ParamsChange
    \/ \E m \in BagToSet(createCalls) : CreateJobsOk(m)
    \/ \E m \in BagToSet(createCalls) : CreateJobsFail(m)
    \/ Tick
    \/ \E m \in BagToSet(statusCalls) : PollOk(m)
    \/ SrvDequeue
    \/ \E id \in JobIds : SrvStage(id)
    \/ \E id \in JobIds : SrvComplete(id)

ParamSpec == Init /\ [][ParamNext]_vars

\* The hook with its unmount.
UnmountNext ==
    \/ Next
    \/ Unmount

UnmountSpec == Init /\ [][UnmountNext]_vars

\* The date range of the app: the initial adjustment and the date selector.
\* The server reports a data range with earliest <= latest.
DateNext ==
    \/ \E dr \in DataRanges, t \in Later : dr[1] <= dr[2] /\ FetchDataRange(dr, t)
    \/ FetchDataRangeFail
    \/ \E days \in QuickDays, t \in Later : HandleQuickSelect(days, t)
    \/ \E cs, ce \in MinuteTimes : HandleCustomDateChange(cs, ce)

DateSpec == Init /\ [][DateNext]_vars

\* The image-loading display: date-range changes, the img elements, the
\* timeout timers and the reload button.
ImageNext ==
    \/ \E r \in ImageRanges : DateRangeEffect(r)
    \/ \E k \in Images : ImageLoads(k)
    \/ \E k \in Images : ImageFails(k)
    \/ \E k \in Images : TimerFire(k)
    \/ ResetUpdating
    \/ CheckAllImagesStatus
    \/ \E k \in Images : HandleReload(k)
    \/ Advance

ImageSpec == Init /\ [][ImageNext]_vars

\* The image-loading display with its scheduling: a timer that is due fires,
\* the setTimeout(0) callback and the status interval run, time passes.  No
\* request is required to end and the user is not required to act.  Time
\* passes whatever else happens again and again.
ImageFairSpec ==
    /\ ImageSpec
    /\ \A k \in Images : WF_vars(TimerFire(k))
    /\ WF_vars(ResetUpdating)
    /\ WF_vars(CheckAllImagesStatus)
    /\ SF_vars(Advance)

\* URL generation of both displays as time passes, where no request ends:
\* every image runs into its timeouts.
KeyNext ==
    \/ \E r \in ImageRanges : DateRangeEffect(r)
    \/ \E k \in Images : TimerFire(k)
    \/ \E k \in Images : HandleReload(k)
    \/ Advance
    \/ \E r \in ImageRanges, lim \in BOOLEAN : SettingsEffect(<<r[1], r[2], lim>>)
    \/ \E rnd \in Randoms : HandleReloadBuilt(rnd)

KeySpec == Init /\ [][KeyNext]_vars

\* The URL of the app: period and altitude changes, the title link and
\* page loads.
UrlNext ==
    \/ \E period \in PeriodTypes, start, end \in MinuteTimes :
          HandlePeriodChange(period, start, end)
    \/ \E limited \in BOOLEAN : HandleAltitudeChange(limited)
    \/ \E t \in Later : HandleTitleClick(t)
    \/ \E t \in Later : PageLoad(t)

UrlSpec == Init /\ [][UrlNext]_vars

\* The server alone, under concurrent getOrCreate callers.
SrvNext ==
    \/ \E c \in Callers, req \in Requests : Create(c, req)
    \/ \E c \in Callers : GateAcquire(c)
    \/ \E c \in Callers : GateLookup(c)
    \/ \E c \in Callers : GateRegister(c)
    \/ \E c \in Callers : GateRelease(c)
    \/ PoolNext
    \/ \E id \in JobIds, status \in {"completed", "failed"} : SrvLateFinish(id, status)
    \/ \E id \in JobIds : SrvExpire(id)
    \/ \E id \in JobIds : SrvEvict(id)

SrvSpec == Init /\ [][SrvNext]_vars

\* The server with its scheduling: a free slot takes the head of the queue,
\* and the supervising timer of a Processing job fires unless the job ends
\* first.  No worker is required ever to finish by itself.
SrvFairSpec ==
    /\ SrvSpec
    /\ WF_vars(SrvDequeue)
    /\ \A id \in JobIds : WF_vars(SrvTimeout(id))


\* The tier selector alone, on every pair of spans.
TierNext == \E d1, d2 \in Spans : SelectTiers(d1, d2)

TierSpec == Init /\ [][TierNext]_vars

\* ------------------------------------------------------------- claims
PollFailStep == \E m \in BagToSet(statusCalls), msg \in PollErrors : PollFail(m, msg)

NoServerFailure ==
    \A id \in DOMAIN srvJobs : srvJobs[id].status \notin {"failed", "timeout"}

\* Nothing is in flight or scheduled, and a timer tick would send nothing: the
\* client changes no state again unless the user acts.
ClientAtRest ==
    /\ hookPc = "mounted"
    /\ pendingRetriesRef = <<>>
    /\ statusCalls = EmptyBag
    /\ createCalls = EmptyBag

\* C1: a never-retried job whose transport failures reach the threshold gets
\* exactly one automatic replacement create(): with no server-side failure at
\* all, the automatic create() calls issued for a graph never outnumber the
\* never-retried jobs installed for it.
C1_ExactlyOneReplacement ==
    NoServerFailure => \A g \in Graphs : autoCreates[g] <= baseJobs[g]

\* C2: a job that is itself an automatic replacement (retryCount >= 1) never
\* triggers a further automatic retry: no step adds its graph to the pending
\* automatic retries.
C2_BoundedRetry ==
    [][\A g \in DOMAIN jobs :
          jobs[g].retryCount >= 1
              => Count(pendingRetriesRef', g) <= Count(pendingRetriesRef, g)]_vars

C2_Witness ==
    \E g \in DOMAIN jobs :
        /\ jobs[g].retryCount >= 1
        /\ jobs[g].status \in Outstanding
        /\ jobs[g].pollingFailureCount >= POLLING_FAILURE_THRESHOLD

\* C3: the fifth consecutive unsuccessful batchStatus call for an outstanding,
\* never-retried job sets its status to failed with an error message, in the
\* same step.
C3_FifthFailureFails ==
    [][\A g \in DOMAIN jobs :
          (/\ PollFailStep
           /\ jobs[g].status \in Outstanding
           /\ jobs[g].retryCount = 0
           /\ jobs[g].pollingFailureCount + 1 = POLLING_FAILURE_THRESHOLD)
              => /\ g \in DOMAIN jobs'
                 /\ jobs'[g].status = "failed"
                 /\ jobs'[g].error \in PollErrors]_vars

C3_Witness ==
    \E g \in DOMAIN jobs :
        /\ jobs[g].status = "failed"
        /\ jobs[g].error \in PollErrors
        /\ jobs[g].retryCount = 0
        /\ jobs[g].pollingFailureCount = POLLING_FAILURE_THRESHOLD

\* C4: an unsuccessful batchStatus call that leaves a job's consecutive failure
\* count below the threshold changes neither its status, progress nor job id,
\* schedules and issues no create() for it, and leaves the timer and the polled
\* ids as they are.
C4_TransientFailureMasked ==
    [][\A g \in DOMAIN jobs :
          (/\ PollFailStep
           /\ jobs[g].status \in Outstanding
           /\ jobs[g].pollingFailureCount + 1 < POLLING_FAILURE_THRESHOLD)
              => /\ g \in DOMAIN jobs'
                 /\ jobs'[g].status = jobs[g].status
                 /\ jobs'[g].progress = jobs[g].progress
                 /\ jobs'[g].jobId = jobs[g].jobId
                 /\ jobs'[g].pollingFailureCount = jobs[g].pollingFailureCount + 1
                 /\ Count(pendingRetriesRef', g) = Count(pendingRetriesRef, g)
                 /\ createCalls' = createCalls
                 /\ autoCreates' = autoCreates
                 /\ pollingRef' = pollingRef
                 /\ jobIdsRef' = jobIdsRef]_vars

C4_Witness ==
    \E g \in DOMAIN jobs :
        /\ jobs[g].status = "processing"
        /\ jobs[g].progress = 50
        /\ jobs[g].pollingFailureCount = POLLING_FAILURE_THRESHOLD - 1
        /\ pollingRef
        /\ g \notin Range(pendingRetriesRef)

\* C5: when the replacement job (retryCount = 1) has reached the threshold of
\* consecutive transport failures, the failure is surfaced: the graph shows the
\* error panel instead of the loading or retrying display.
C5_SecondBreachSurfaced ==
    \A g \in DOMAIN jobs :
        (jobs[g].retryCount = 1
            /\ jobs[g].pollingFailureCount >= POLLING_FAILURE_THRESHOLD)
            => ShowsErrorPanel(g)

\* C6: polling never hangs: when the client has come to rest (nothing in
\* flight, nothing scheduled, the timer stopped or polling no id), every graph
\* is in a terminal state.
C6_NeverHangs ==
    (ClientAtRest /\ (~pollingRef \/ jobIdsRef = <<>>))
        => \A g \in DOMAIN jobs : jobs[g].status \in Terminal

\* C7: once every job is in a non-retrying terminal state, polling completes:
\* at rest with no id left to poll, the timer is cleared and isLoading is false.
C7_PollingCompletes ==
    (/\ ClientAtRest
     /\ jobIdsRef = <<>>
     /\ DOMAIN jobs = Graphs
     /\ \A g \in Graphs : jobs[g].status \in Terminal /\ ~jobs[g].isRetrying)
        => (~pollingRef /\ ~isLoading)

\* C8: a graph whose job is failed or timeout, with no replacement scheduled
\* or in flight, shows the error panel with the reload button.
C8_ErrorHasReload ==
    \A g \in DOMAIN jobs :
        (/\ HasError(g)
         /\ g \notin Range(pendingRetriesRef)
         /\ \A m \in BagToSet(createCalls) : g \notin Range(m.graphs))
            => ShowsErrorPanel(g)

\* C9: registry invariant: for any fingerprint at most one job is Pending or
\* Processing, whatever the interleaving of concurrent getOrCreate callers,
\* worker transitions, timeouts, expiry and eviction.
C9_RegistryInvariant ==
    \A fp \in Fingerprints : Cardinality(LiveJobs(srvJobs, fp)) <= 1

\* A caller waits at the gate for a fingerprint whose earlier job timed out and
\* whose fresh job is live, while another caller has just been served.
C9_Witness ==
    \E c1, c2 \in Callers, id1, id2 \in DOMAIN srvJobs :
        /\ c1 # c2
        /\ callers[c1].pc = "wait"
        /\ callers[c2].pc = "release"
        /\ callers[c1].fp = callers[c2].fp
        /\ srvJobs[id1].fp = callers[c1].fp
        /\ srvJobs[id1].status = "timeout"
        /\ srvJobs[id2].fp = callers[c1].fp
        /\ srvJobs[id2].status \in Outstanding

\* C10: dedup: a getOrCreate call that looks its fingerprint up while a job of
\* that fingerprint is Pending or Processing returns that job's id and neither
\* registers nor enqueues anything; and the render pipeline has run exactly
\* once for every job that left Pending, never for one still Pending.
C10_Dedup ==
    [][/\ \A c \in Callers :
            (/\ callers[c].pc = "lookup"
             /\ callers'[c].pc # "lookup"
             /\ LiveJobs(srvJobs, callers[c].fp) # {})
                => /\ callers'[c].found \in LiveJobs(srvJobs, callers[c].fp)
                   /\ callers'[c].pc = "release"
                   /\ regVars' = regVars
                   /\ renders' = renders
       /\ \A id \in DOMAIN srvJobs' :
            renders'[id] = IF srvJobs'[id].status = "pending" THEN 0 ELSE 1]_vars

\* Two callers hold the same job id while that job is being rendered, for the
\* first and only time.
C10_Witness ==
    \E c1, c2 \in Callers :
        /\ c1 # c2
        /\ callers[c1].found # 0
        /\ callers[c1].found = callers[c2].found
        /\ callers[c1].fp = callers[c2].fp
        /\ callers[c1].found \in Processing
        /\ renders[callers[c1].found] = 1

\* C11: cache reuse: a getOrCreate call that looks its fingerprint up while no
\* job of it is live and a Completed job of it has an unexpired artifact
\* returns the id of such a job and leaves the set of jobs, the queue and the
\* id counter unchanged.
C11_CacheReuse ==
    [][\A c \in Callers :
          (/\ callers[c].pc = "lookup"
           /\ callers'[c].pc # "lookup"
           /\ \A id \in DOMAIN srvJobs :
                 srvJobs[id].fp = callers[c].fp => srvJobs[id].status \notin Outstanding
           /\ \E id \in DOMAIN srvJobs :
                 /\ srvJobs[id].fp = callers[c].fp
                 /\ srvJobs[id].status = "completed"
                 /\ ~srvJobs[id].expired)
              => /\ callers'[c].found \in DOMAIN srvJobs
                 /\ srvJobs[callers'[c].found].fp = callers[c].fp
                 /\ srvJobs[callers'[c].found].status = "completed"
                 /\ ~srvJobs[callers'[c].found].expired
                 /\ callers'[c].pc = "release"
                 /\ regVars' = regVars]_vars

\* A caller has just been served a Completed, unexpired job from the cache.
C11_Witness ==
    \E c \in Callers :
        /\ callers[c].pc = "release"
        /\ callers[c].how = "hit"
        /\ callers[c].found \in DOMAIN srvJobs
        /\ srvJobs[callers[c].found].status = "completed"
        /\ ~srvJobs[callers[c].found].expired
        /\ srvNextId = callers[c].found + 1

\* Any step of the worker pool, an execution unit ending late included.
PoolActivity ==
    \/ PoolNext
    \/ \E id \in JobIds, status \in {"completed", "failed"} : SrvLateFinish(id, status)

\* C12: terminal stability: a job that is Completed, Failed or Timeout keeps
\* its status for as long as it is registered, and no worker-pool step (a
\* worker ending after the supervisor's Timeout included) changes its record
\* or its artifact.
C12_TerminalStability ==
    [][\A id \in DOMAIN srvJobs :
          srvJobs[id].status \in Terminal
              => /\ id \in DOMAIN srvJobs'
                     => srvJobs'[id].status = srvJobs[id].status
                 /\ PoolActivity
                     => (id \in DOMAIN srvJobs' /\ srvJobs'[id] = srvJobs[id])]_vars

\* A job was set to Timeout by the supervisor and its execution unit has
\* ended since: the late result was dropped.
C12_Witness ==
    \E id \in DOMAIN srvJobs :
        /\ srvJobs[id].status = "timeout"
        /\ renders[id] = 1
        /\ id \notin workers

\* C13: on the client, the record of a job id that has reached completed,
\* failed or timeout never returns to pending or processing: whenever a graph's
\* entry is outstanding again after a terminal status, it carries another job id.
C13_ClientTerminalStable ==
    [][\A g \in DOMAIN jobs :
          (/\ jobs[g].status \in Terminal
           /\ g \in DOMAIN jobs'
           /\ jobs'[g].jobId = jobs[g].jobId)
              => jobs'[g].status \in Terminal]_vars

\* C14: a Processing job is set to Timeout by the supervisor, not by its own
\* execution unit (which may still be running), and that frees its slot; a
\* getOrCreate for a fingerprint whose jobs are all Failed or Timeout then
\* goes on to register a fresh Pending job under an id not used before.
C14_TimeoutThenFreshJob ==
    [][/\ \A id \in DOMAIN srvJobs :
            (/\ srvJobs[id].status = "processing"
             /\ id \in DOMAIN srvJobs'
             /\ srvJobs'[id].status = "timeout")
                => /\ workers' = workers
                   /\ Cardinality(Processing') = Cardinality(Processing) - 1
                   /\ Cardinality(Processing') < NumSlots
       /\ \A c \in Callers :
            (/\ callers[c].pc = "lookup"
             /\ callers'[c].pc # "lookup"
             /\ \E id \in DOMAIN srvJobs :
                   srvJobs[id].fp = callers[c].fp /\ srvJobs[id].status = "timeout"
             /\ \A id \in DOMAIN srvJobs :
                   srvJobs[id].fp = callers[c].fp
                       => srvJobs[id].status \in {"failed", "timeout"})
                => callers'[c].pc = "register"
       /\ \A c \in Callers :
            (callers[c].pc = "register" /\ callers'[c].pc # "register")
                => /\ callers'[c].found \notin DOMAIN srvJobs
                   /\ callers'[c].found \in DOMAIN srvJobs'
                   /\ srvJobs'[callers'[c].found] = NewJob(callers[c].fp)
                   /\ srvQueue' = Append(srvQueue, callers'[c].found)]_vars

\* The job of a fingerprint timed out while its execution unit still hangs,
\* and a fresh job of the same fingerprint, created since, runs in the slot.
C14_Witness ==
    \E c \in Callers, id1, id2 \in DOMAIN srvJobs :
        /\ id1 < id2
        /\ srvJobs[id1].fp = srvJobs[id2].fp
        /\ srvJobs[id1].status = "timeout"
        /\ id1 \in workers
        /\ srvJobs[id2].status = "processing"
        /\ callers[c].found = id2
        /\ callers[c].how = "new"

\* C15: expiry: fetchResult on a Completed job whose artifact has expired
\* returns NotFound although the record still shows Completed, and a
\* getOrCreate for a fingerprint with no live job and only expired Completed
\* jobs goes on to register new work instead of returning an expired job.
C15_Expiry ==
    [][/\ \A id \in DOMAIN srvJobs' :
            (srvJobs'[id].status = "completed" /\ srvJobs'[id].expired)
                => ~FetchResult(id)'
       /\ \A c \in Callers :
            (/\ callers[c].pc = "lookup"
             /\ callers'[c].pc # "lookup"
             /\ \E id \in DOMAIN srvJobs :
                   /\ srvJobs[id].fp = callers[c].fp
                   /\ srvJobs[id].status = "completed"
                   /\ srvJobs[id].expired
             /\ \A id \in DOMAIN srvJobs :
                   srvJobs[id].fp = callers[c].fp
                       => /\ srvJobs[id].status \notin Outstanding
                          /\ srvJobs[id].status = "completed" => srvJobs[id].expired)
                => /\ callers'[c].pc = "register"
                   /\ callers'[c].found = 0]_vars

\* An expired Completed job is still registered, its artifact is gone, and a
\* fresh job of the same fingerprint has been created after the expiry.
C15_Witness ==
    \E c \in Callers, id1, id2 \in DOMAIN srvJobs :
        /\ id1 < id2
        /\ srvJobs[id1].fp = srvJobs[id2].fp
        /\ srvJobs[id1].status = "completed"
        /\ srvJobs[id1].expired
        /\ ~FetchResult(id1)
        /\ srvJobs[id2].status \in Outstanding
        /\ callers[c].found = id2
        /\ callers[c].how = "new"

\* C16: a polling tick, like the first poll of startPolling, issues at most one
\* batchStatus request; the request carries the whole list of polled job ids,
\* however many, and none is issued for an empty list.
C16_SingleBatchRequest ==
    [][/\ BagCardinality(statusCalls') <= BagCardinality(statusCalls) + 1
       /\ \A m \in BagToSet(statusCalls') :
            CopiesIn(m, statusCalls') > CopiesIn(m, statusCalls)
                => (m.ids = jobIdsRef' /\ m.ids # <<>>)
       /\ Tick => statusCalls' = statusCalls (+) One(StatusCall(jobIdsRef))]_vars

\* One request in flight carries two job ids, the whole polled list.
C16_Witness ==
    \E m \in BagToSet(statusCalls) :
        /\ Len(m.ids) >= 2
        /\ m.ids = jobIdsRef
        /\ pollingRef

\* A batchStatus answer reporting one job id with the given status.
Reported(id, status) ==
    (id :> [status |-> status, progress |-> 0, error |-> ServerError])

SameButLabel(j1, j2) == [j1 EXCEPT !.status = "x"] = [j2 EXCEPT !.status = "x"]

\* C17: in every reachable client state, an answer reporting a job as timeout
\* is processed like one reporting it as failed, the status label apart: same
\* updated entries, same automatic-retry targets, same ids removed from the
\* polled list, same decision to stop polling; and an entry that is failed or
\* timeout is displayed by its isRetrying flag alone, whichever the label.
C17_TimeoutLikeFailed ==
    \A g \in DOMAIN jobs :
        LET id == jobs[g].jobId
            dF == Reported(id, "failed")
            dT == Reported(id, "timeout")
        IN /\ \A h \in DOMAIN jobs :
                SameButLabel(PolledJobs(jobs, dF)[h], PolledJobs(jobs, dT)[h])
           /\ PolledJobs(jobs, dT)[GraphOfJob(jobs, id)].status = "timeout"
           /\ StatusRetryTargets(jobs, dF) = StatusRetryTargets(jobs, dT)
           /\ CompletedJobIds(jobs, dF) = CompletedJobIds(jobs, dT)
           /\ CompletedJobIds(jobs, dT) = {id}
           /\ AllCompleted(jobs, dF) = AllCompleted(jobs, dT)
           /\ jobs[g].status \in {"failed", "timeout"}
                => /\ HasError(g)
                   /\ ~IsJobLoading(g)
                   /\ ~ShowsImage(g)
                   /\ ShowsErrorPanel(g) = ~jobs[g].isRetrying
                   /\ ShowsRetrying(g) = jobs[g].isRetrying

\* The server reported a never-retried job as timeout: the entry shows the
\* error panel, its id has left the polled list and its graph awaits the
\* automatic retry.
C17_Witness ==
    \E g \in DOMAIN jobs :
        /\ jobs[g].status = "timeout"
        /\ jobs[g].error = TimeoutError
        /\ jobs[g].jobId \notin Range(jobIdsRef)
        /\ g \in Range(pendingRetriesRef)
        /\ ShowsErrorPanel(g)

\* C18: the jobs Processing never outnumber the execution slots, and every
\* Pending job is eventually Completed, Failed or Timeout, even if the workers
\* of other jobs never finish by themselves.
C18_PoolBoundAndAdmission ==
    /\ [](Cardinality(Processing) <= NumSlots)
    /\ \A id \in JobIds :
          (id \in DOMAIN srvJobs /\ srvJobs[id].status = "pending")
              ~> (id \in DOMAIN srvJobs /\ srvJobs[id].status \in Terminal)

\* Every slot is busy and a Pending job waits in the queue.
C18_Witness ==
    /\ srvQueue # <<>>
    /\ Cardinality(Processing) = NumSlots
    /\ \A i \in 1..Len(srvQueue) : srvJobs[srvQueue[i]].status = "pending"

\* C19: aggregation monotonicity: of two spans the shorter never gets the
\* coarser tier; the tier is raw up to 14 days, mid up to 90 days and the
\* coarsest beyond (10 days: raw, 45 days: mid, 200 days: coarsest).
C19_TierMonotone ==
    tiers # <<>>
        => /\ spans[1] < spans[2] => Coarseness(tiers[1]) <= Coarseness(tiers[2])
           /\ \A i \in 1..2 :
                /\ tiers[i] \in Tiers
                /\ tiers[i] = "raw" <=> spans[i] <= 14
                /\ tiers[i] = "coarse" <=> spans[i] > 90
                /\ spans[i] = 10 => tiers[i] = "raw"
                /\ spans[i] = 45 => tiers[i] = "mid"
                /\ spans[i] = 200 => tiers[i] = "coarse"

\* A 45-day span got the mid tier and a 200-day span the coarsest.
C19_Witness == spans = <<45, 200>> /\ tiers = <<"mid", "coarse">>

\* C20: a create() request with start > end or an unknown graph name is
\* rejected at once: the caller gets the validation error without entering
\* the gate, the jobs, the queue and the id counter are unchanged; and no
\* registered job and no caller inside the gate ever carries the key of an
\* invalid request.
C20_ValidationRejects ==
    [][/\ \A c \in Callers, req \in Requests :
            (/\ req.graph \notin Graphs \/ req.start > req.end
             /\ callers[c].pc = "idle"
             /\ Create(c, req))
                => /\ callers'[c].pc = "idle"
                   /\ callers'[c].how = "rejected"
                   /\ regVars' = regVars
                   /\ srvLock' = srvLock
       /\ \A id \in DOMAIN srvJobs' :
            \E req \in Requests :
                /\ req.graph \in Graphs
                /\ req.start <= req.end
                /\ srvJobs'[id].fp = Fingerprint(req)
       /\ \A c \in Callers :
            callers'[c].pc # "idle"
                => \E req \in Requests :
                      /\ req.graph \in Graphs
                      /\ req.start <= req.end
                      /\ callers'[c].fp = Fingerprint(req)]_vars

\* A caller has been refused while a job of a valid request waits in the
\* queue and another caller is inside the gate.
C20_Witness ==
    \E c1, c2 \in Callers :
        /\ callers[c1].how = "rejected"
        /\ callers[c1].pc = "idle"
        /\ callers[c2].pc \in {"lookup", "register", "release"}
        /\ srvQueue # <<>>

\* A job the client still waits for: its entry is pending or processing and its
\* id is in the polled id set.
AwaitedJobs(js, ids) ==
    {g \in DOMAIN js : js[g].status \in Outstanding /\ js[g].jobId \in Range(ids)}

PollOkStep == \E m \in BagToSet(statusCalls) : PollOk(m)

\* C21: while the hook is mounted, a status response never stops the polling
\* timer when it leaves some graph's job pending or processing with its id
\* still in the polled id set.
C21_PollingKeptWhileAwaited ==
    [][(PollOkStep /\ mountedRef /\ pollingRef /\ AwaitedJobs(jobs', jobIdsRef') # {})
          => pollingRef']_vars

\* The job table holds the batch created for the current parameters.
CurrentBatch(js) ==
    /\ DOMAIN js = Graphs
    /\ \A g \in Graphs :
          /\ js[g].jobId \in DOMAIN srvJobs
          /\ srvJobs[js[g].jobId].fp = Fingerprint(ClientRequest(g, params))

\* A request issued for earlier parameters: a create() carrying them, or a
\* status call for jobs none of which belongs to the current parameters.
StaleCreate(m) == m.params < params
StalePoll(m) ==
    \A i \in 1..Len(m.ids) :
       \A g \in Graphs :
          srvJobs[m.ids[i]].fp # Fingerprint(ClientRequest(g, params))

\* C22: once the batch of the new parameters is installed, the response to a
\* create() or batchStatus request issued for the previous parameters neither
\* changes the job table nor stops the polling of the new batch.
C22_StaleResponseIgnored ==
    [][(params > 0 /\ CurrentBatch(jobs) /\ pollingRef)
          => /\ \A m \in BagToSet(createCalls) :
                   (StaleCreate(m) /\ CreateJobsOk(m)) => CurrentBatch(jobs')
             /\ \A m \in BagToSet(statusCalls) :
                   (StalePoll(m) /\ PollOk(m)) => (jobs' = jobs /\ pollingRef')]_vars

\* Automatic create() calls in flight for graph g.
AutoInFlight(g) ==
    {m \in BagToSet(createCalls) : m.kind = "reload" /\ m.auto /\ m.graphs[1] = g}

\* C23: a status response reporting Failed or Timeout schedules an automatic
\* replacement for a graph only if none is already scheduled or in flight for
\* it, so one reported failure leads to at most one replacement create().
C23_OneReplacementPerFailure ==
    [][PollOkStep =>
         \A g \in Graphs :
            Count(pendingRetriesRef', g) > Count(pendingRetriesRef, g)
               => /\ Count(pendingRetriesRef', g) = 1
                  /\ AutoInFlight(g) = {}]_vars

\* The entries whose job a status call reports: the entry's job id is among the
\* ids of the call and the entry is the first one holding that id.
ReportedGraphs(js, m) ==
    {g \in DOMAIN js :
        /\ js[g].jobId \in Range(m.ids)
        /\ \A h \in DOMAIN js : js[h].jobId = js[g].jobId => g <= h}

\* C24: every successful batchStatus response sets pollingFailureCount to 0 for
\* every job it reports, and an unsuccessful call adds exactly one to the count
\* of an outstanding job, so the count is the number of failures since the last
\* success and a job is failed locally only at the threshold.
C24_ConsecutiveFailuresOnly ==
    [][/\ \A m \in BagToSet(statusCalls) :
             (PollOk(m) /\ mountedRef)
                => \A g \in ReportedGraphs(jobs, m) :
                      jobs'[g].pollingFailureCount = 0
       /\ PollFailStep
             => \A g \in DOMAIN jobs :
                   /\ jobs'[g].pollingFailureCount <= jobs[g].pollingFailureCount + 1
                   /\ (jobs[g].status \in Outstanding /\ jobs'[g].status = "failed")
                         => jobs[g].pollingFailureCount + 1 >= POLLING_FAILURE_THRESHOLD]_vars

\* Job 1 was failed locally after five unsuccessful calls and marked retrying
\* with its count kept; a later successful response for job 1, still polled
\* and still processing on the server, has put the count back to 0.
C24_Witness ==
    \E g \in DOMAIN jobs :
        /\ jobs[g].isRetrying
        /\ jobs[g].retryCount = 0
        /\ jobs[g].status = "processing"
        /\ jobs[g].pollingFailureCount = 0
        /\ srvJobs[jobs[g].jobId].status = "processing"

\* C25: an unsuccessful batchStatus call adds one to the failure count of the
\* entries that are pending or processing and leaves every entry that is
\* completed, failed or timeout exactly as it was, whatever its count, error
\* and resultUrl; the same holds when the handler is applied to any reachable
\* entry put into a terminal status.
C25_FailureLeavesTerminalJobs ==
    [][PollFailStep =>
         /\ DOMAIN jobs' = DOMAIN jobs
         /\ \A g \in DOMAIN jobs :
               /\ jobs[g].status \in Terminal => jobs'[g] = jobs[g]
               /\ jobs[g].status \in Outstanding
                     => jobs'[g].pollingFailureCount = jobs[g].pollingFailureCount + 1
               /\ \A t \in Terminal, msg \in PollErrors :
                     FailureUpdate([jobs[g] EXCEPT !.status = t], msg)
                        = [jobs[g] EXCEPT !.status = t]]_vars

\* A job failed locally at the fifth unsuccessful call is still polled: a
\* further status call for it is in flight.
C25_Witness ==
    \E g \in DOMAIN jobs :
        /\ jobs[g].status = "failed"
        /\ jobs[g].error \in PollErrors
        /\ jobs[g].pollingFailureCount = POLLING_FAILURE_THRESHOLD
        /\ \E m \in BagToSet(statusCalls) : jobs[g].jobId \in Range(m.ids)

\* C26: when the response to an automatic replacement create() is installed,
\* the graph's entry holds the returned job id with status pending, progress 0,
\* no error, no resultUrl, isRetrying true, pollingFailureCount 0 and
\* retryCount 1, the id is in the polled id set, and every other entry is as
\* before.
C26_ReplacementInstalled ==
    [][\A m \in BagToSet(createCalls) :
          (ReloadOk(m) /\ m.auto)
             => LET g == m.graphs[1] IN
                /\ g \in DOMAIN jobs'
                /\ jobs'[g] = FreshJob(jobs'[g].jobId, 1, TRUE)
                /\ jobs'[g].jobId \in Range(jobIdsRef')
                /\ jobs'[g].jobId \in DOMAIN srvJobs'
                /\ \A h \in DOMAIN jobs \ {g} : h \in DOMAIN jobs' /\ jobs'[h] = jobs[h]]_vars

\* A job table with one more graph, whose entry is e.
OtherGraph == NumGraphs + 1
WithOther(js, e) == [k \in DOMAIN js \cup {OtherGraph} |-> IF k = OtherGraph THEN e ELSE js[k]]

\* The id the server answers to a create() for the graphs of call m.
AnsweredId(m) == CreateAll(RegState, m.graphs, m.params, <<>>).out[1].id

ManualReloadStep(g) == ReloadClick(g) \/ ImageError(g)

C28_CreateFailure ==
    [][\A m \in BagToSet(createCalls) :
          /\ CreateJobsFail(m)
                => /\ jobs' = jobs
                   /\ jobIdsRef' = jobIdsRef
                   /\ pollingRef' = pollingRef
                   /\ statusCalls' = statusCalls
                   /\ ~isLoading'
          /\ (ReloadFail(m) /\ m.auto /\ m.graphs[1] \in DOMAIN jobs)
                => LET g == m.graphs[1] IN
                   /\ jobs'[g].status = "failed"
                   /\ ~jobs'[g].isRetrying
                   /\ jobs'[g].error = ConnectionError
                   /\ jobs'[g].jobId = jobs[g].jobId
                   /\ jobs'[g].retryCount = jobs[g].retryCount
                   /\ HasError(g)']_vars

\* The automatic replacement create() failed while the entry was shown as
\* retrying: the entry is failed with the connection error and not retrying.
C28_Witness ==
    \E g \in DOMAIN jobs :
        /\ jobs[g].status = "failed"
        /\ jobs[g].error = ConnectionError
        /\ ~jobs[g].isRetrying
        /\ autoCreates[g] >= 1

\* C29: every id in the polled id set is the job id of some graph's current
\* entry: the id of a job that was replaced is no longer polled.
C29_PolledIdsTracked ==
    \A i \in 1..Len(jobIdsRef) :
       \E g \in DOMAIN jobs : jobs[g].jobId = jobIdsRef[i]

\* C30: an entry's resultUrl is set exactly when its status is completed, and
\* it is then the result path of the entry's own job id.
C30_ResultUrlIffCompleted ==
    \A g \in DOMAIN jobs :
        /\ (jobs[g].resultUrl # 0) <=> (jobs[g].status = "completed")
        /\ jobs[g].resultUrl # 0 => jobs[g].resultUrl = jobs[g].jobId

\* C31: once the hook is unmounted, no step sets the polling timer and no step
\* issues a status or create request, whatever was in flight at unmount time.
C31_QuietAfterUnmount ==
    [][hookPc = "unmounted"
          => /\ ~pollingRef'
             /\ \A m \in BagToSet(statusCalls') :
                   CopiesIn(m, statusCalls') <= CopiesIn(m, statusCalls)
             /\ \A m \in BagToSet(createCalls') :
                   CopiesIn(m, createCalls') <= CopiesIn(m, createCalls)]_vars

\* The custom range as the handler clips it to the data range dr.
ClippedStart(cs, dr) == IF dr # <<>> /\ Floor(cs) < dr[1] THEN Floor(dr[1]) ELSE Floor(cs)
ClippedEnd(ce, dr) == IF dr # <<>> /\ Floor(ce) > dr[2] THEN Floor(dr[2]) ELSE Floor(ce)

\* C32: a custom range whose start is later than its end, as entered or after
\* clipping to the data range, ends the handler before onDateChange: the date
\* range stays as it was; and every range handed to onDateChange has
\* start <= end.
C32_CustomRangeRejected ==
    [][\A cs, ce \in MinuteTimes :
          HandleCustomDateChange(cs, ce)
             => /\ (cs > ce \/ ClippedStart(cs, dataRange) > ClippedEnd(ce, dataRange))
                      => (~dateLog'.called /\ dateRange' = dateRange)
                /\ dateLog'.called
                      => /\ dateRange'[1] <= dateRange'[2]
                         /\ dateRange' = <<ClippedStart(cs, dataRange),
                                           ClippedEnd(ce, dataRange)>>]_vars

\* With a data range known, a custom range has just been rejected.
C32_Witness ==
    /\ dateLog.op = "custom"
    /\ ~dateLog.called
    /\ dataRange # <<>>

\* C33: for every data range with earliest <= latest and every current time,
\* the range set by the initial adjustment in App and the range handed to
\* onDateChange by a quick-select period has start <= end and end <= latest.
InitialOrQuickStep ==
    \/ \E dr \in DataRanges, t \in Later : dr[1] <= dr[2] /\ FetchDataRange(dr, t)
    \/ \E days \in QuickDays, t \in Later : HandleQuickSelect(days, t)

C33_RangeOrdered ==
    [][(InitialOrQuickStep /\ dateLog'.called /\ dataRange' # <<>>)
          => /\ dateRange'[1] <= dateRange'[2]
             /\ dateRange'[2] <= dataRange'[2]]_vars

\* C34: the cache key of a non-forced URL is the 10-minute bucket of the
\* current time: with equal (start, end, limitAltitude) a non-forced
\* generation at another instant yields the same URL exactly when that
\* instant lies in the same bucket; a forced reload yields a URL different
\* from every non-forced URL of an earlier instant (getImageUrl) and from
\* every non-forced URL at all (buildImageUrl).
NonForcedStep == \E r \in ImageRanges : DateRangeEffect(r)

ForcedStep(k) ==
    \/ HandleReload(k)
    \/ /\ TimerFire(k)
       /\ imgState[k] \in {"empty", "pending"}
       /\ loadingTimers[k].count < MAX_RETRY_COUNT

BuiltNonForcedStep ==
    \E r \in ImageRanges, lim \in BOOLEAN :
        SettingsEffect(<<r[1], r[2], lim>>) /\ lastSettingsRef' # lastSettingsRef

BuiltForcedStep == \E rnd \in Randoms : HandleReloadBuilt(rnd)

BuiltNonForced(props, t) == BuildImageUrl(props[1], props[2], props[3], FALSE, t, 0)

C34_RollingCacheKey ==
    [][/\ NonForcedStep
          => \A k \in Images, t2 \in WallTimes :
                (GetImageUrl(propDateRange', FALSE, t2) = imageUrls'[k])
                   <=> (t2 \div TenMinutes = wallClock \div TenMinutes)
       /\ \A k \in Images :
             ForcedStep(k)
                => \A t1 \in WallTimes :
                      t1 < wallClock
                         => imageUrls'[k] # GetImageUrl(propDateRange, FALSE, t1)
       /\ BuiltNonForcedStep
          => \A t2 \in WallTimes :
                (BuiltNonForced(builtProps', t2) = builtUrl')
                   <=> (t2 \div TenMinutes = wallClock \div TenMinutes)
       /\ BuiltForcedStep
          => \A t1 \in WallTimes : builtUrl' # BuiltNonForced(builtProps, t1)]_vars

\* C34 as stated: a forced reload always yields a URL different from the
\* non-forced one of the same instant.
C34_ForcedAlwaysDiffers ==
    [][/\ \A k \in Images :
             ForcedStep(k) => imageUrls'[k] # GetImageUrl(propDateRange, FALSE, wallClock)
       /\ BuiltForcedStep => builtUrl' # BuiltNonForced(builtProps, wallClock)]_vars

C34_Witness ==
    /\ imageRetryCount[1] > 0
    /\ imageUrls[1].t = wallClock
    /\ wallClock >= TenMinutes
    /\ builtUrl # <<>>
    /\ builtUrl.r # <<>>

\* C37: after a date-range change an image is re-requested automatically at
\* most MAX_RETRY_COUNT times; a timeout check that finds the last attempt
\* still not loaded ends the loading state with the timeout error; and no
\* image stays in the loading state forever.
LastAttemptTimesOut(k) ==
    /\ TimerFire(k)
    /\ imgState[k] \in {"empty", "pending"}
    /\ loadingTimers[k].count >= MAX_RETRY_COUNT

C37_ImageRetry ==
    /\ [](\A k \in Images : imageRetryCount[k] <= MAX_RETRY_COUNT)
    /\ [][\A k \in Images :
             LastAttemptTimesOut(k) => (~loading'[k] /\ errors'[k] = LoadTimeout)]_vars
    /\ \A k \in Images : (propDateRange # <<>> /\ loading[k]) ~> ~loading[k]

\* C35: the state written by updateUrl is read back by parseUrlParams, with
\* the defaults of App, as the same period, the same start and end for a
\* custom period, and the same limitAltitude.
UpdateUrlStep ==
    \/ \E period \in PeriodTypes, start, end \in MinuteTimes :
          HandlePeriodChange(period, start, end)
    \/ \E limited \in BOOLEAN : HandleAltitudeChange(limited)

C35_UrlRoundTrip ==
    [][UpdateUrlStep
          => LET urlParams == ParseUrlParams(locationSearch') IN
             /\ GetInitialPeriod(urlParams) = selectedPeriod'
             /\ GetInitialLimitAltitude(urlParams) = limitAltitude'
             /\ selectedPeriod' = "custom"
                   => GetInitialDateFor(urlParams, InitNow) = dateRange']_vars

\* C36: in the default state (period 7days, no altitude limit) updateUrl
\* leaves no query parameter, whatever the URL held before; in every other
\* state the URL carries either a period parameter or both start and end,
\* and limitAltitude=true exactly when the limit is on.
HasParam(search, key) == key \in DOMAIN search

C36_UrlShape ==
    [][UpdateUrlStep
          => IF selectedPeriod' = DefaultPeriod /\ ~limitAltitude'
             THEN DOMAIN locationSearch' = {}
             ELSE /\ HasParam(locationSearch', "period")
                     # (HasParam(locationSearch', "start") /\ HasParam(locationSearch', "end"))
                  /\ HasParam(locationSearch', "period")
                        => /\ ~HasParam(locationSearch', "start")
                           /\ ~HasParam(locationSearch', "end")
                           /\ locationSearch'["period"] = selectedPeriod'
                  /\ selectedPeriod' = "custom" <=> ~HasParam(locationSearch', "period")
                  /\ limitAltitude'
                        <=> /\ HasParam(locationSearch', "limitAltitude")
                            /\ locationSearch'["limitAltitude"] = "true"]_vars

C36_Witness ==
    /\ selectedPeriod = "custom"
    /\ limitAltitude
    /\ DOMAIN locationSearch = {"start", "end", "limitAltitude"}

====
